---- MODULE Spec2Model ----
(***************************************************************************)
(* A model of the mcpd Python SDK client: the tool-function synthesizer    *)
(* (FunctionBuilder), the tool resolution policy (McpdClient.agent_tools)  *)
(* and the per-server health cache in front of McpdClient.server_health.   *)
(***************************************************************************)
EXTENDS Integers, Sequences, FiniteSets, TLC

VARIABLES
    function_cache,  \* FunctionBuilder._function_cache: cache key -> cached build
    created,         \* the last create_function_from_schema call and the callable it returned
    call,            \* the last call of that callable and what it did
    daemon_tools,    \* the daemon: server name -> the tool names it lists, in order
    daemon_health,   \* the daemon: server name -> health status
    agent,           \* the last agent_tools call: its arguments and what it did
    ttl,             \* server_health_cache_ttl, fixed at construction
    now,             \* the clock the health cache reads
    health_cache,    \* the health cache: server -> stored outcome and its expiry
    history,         \* server -> what happened to its lookups so far
    calls,           \* server_health(s) calls made
    fetches,         \* HTTP requests made for them
    last,            \* the last server_health(s) call and what it did
    probe,           \* the last has_tool / is_server_healthy / client.call access or call
    posts,           \* the tool-invocation requests sent through client.call so far
    threads,         \* thread -> where it is in its FunctionBuilder call and what it got
    daemon_props,    \* the daemon: the properties its tool definitions declare
    client,          \* the last McpdClient construction: its argument and what it gave
    mapped,          \* the last parse_schema_type call: its argument and what it gave
    heap,            \* the __annotations__ dict objects, by identity
    handed,          \* the callables handed out for one key: which dict each holds
    entry_ref        \* cache key -> the dict object its cache entry holds

builder_vars == <<function_cache, created, call>>
tools_vars == <<daemon_tools, daemon_health, agent, daemon_props>>
health_vars == <<ttl, now, health_cache, history, calls, fetches, last>>
proxy_vars == <<probe, posts>>
thread_vars == <<threads>>
unit_vars == <<client, mapped>>
alias_vars == <<heap, handed, entry_ref>>
vars == <<builder_vars, tools_vars, health_vars, proxy_vars, thread_vars, unit_vars, alias_vars>>

----------------------------------------------------------------------------
(* Values and names.                                                       *)

\* Python's None, which the generated signature uses as the default of an
\* optional parameter.
None == "None"

\* Argument values a caller passes: None, a falsy value (0) and a truthy one.
Values == {None, "zero", "one"}

\* Server and tool names.  "a" + "__" + "b__c" and "a__b" + "__" + "c" are the
\* same string.
ServerNames == {"a", "a__b"}
ToolNames == {"c", "b__c"}

\* inputSchema.properties, in insertion order, and inputSchema.required.
\* Parameter names are not names the generated body uses for its own locals
\* (required_params, missing_params, locals_dict, param, params, param_name).
SchemaShapes ==
    {[props |-> <<>>,         required |-> {}],
     [props |-> <<"x">>,      required |-> {"x"}],
     [props |-> <<"x">>,      required |-> {"z"}],
     [props |-> <<"x", "y">>, required |-> {}],
     [props |-> <<"x", "y">>, required |-> {"y"}],
     [props |-> <<"y", "x">>, required |-> {"x"}],
     [props |-> <<"x", "y">>, required |-> {"x", "y"}]}
KwNames == {"x", "y"}

Schemas == {[name |-> t, props |-> sh.props, required |-> sh.required] :
                t \in ToolNames, sh \in SchemaShapes}

\* Keyword arguments of one call: a map from the names passed to their values.
KwArgs == UNION {[D -> Values] : D \in SUBSET KwNames}

Range(s) == {s[i] : i \in 1..Len(s)}

\* How many distinct keys one run lets the function cache hold.
MaxCached == 1

NoEntry == [kind |-> "none"]

----------------------------------------------------------------------------
(* FunctionBuilder                                                         *)

\* f"{server_name}__{schema.get('name', '')}"
cache_key(schema, server_name) == server_name \o "__" \o schema.name

\* f"{server_name}__{schema['name']}": the name of the generated function.
function_name(schema, server_name) == server_name \o "__" \o schema.name

\* The generated source text, kept as the parts that decide its behaviour: the
\* signature (required parameters first, then optional ones with default None),
\* the literal required_params list, the literal property list, and the
\* literal server and tool names of the _perform_call line.
_build_function_code(schema, server_name) ==
    LET properties == schema.props
        required_params == schema.required
        required_param_names == SelectSeq(properties, LAMBDA p : p \in required_params)
        optional_param_names == SelectSeq(properties, LAMBDA p : p \notin required_params)
    IN  [name            |-> function_name(schema, server_name),
         signature       |-> required_param_names \o optional_param_names,
         no_default      |-> Range(required_param_names),
         required_params |-> required_params,
         properties      |-> properties,
         server          |-> server_name,
         tool            |-> schema.name]

\* __annotations__: a required parameter maps to its type, an optional one to
\* type | None, and "return" to Any.  The schemas here carry no "type", so the
\* type of every parameter is Any.
_create_annotations(schema) ==
    [p \in Range(schema.props) \cup {"return"} |->
        IF p = "return" \/ p \in schema.required THEN "Any" ELSE "Any|None"]

\* A callable: the code it runs and its __annotations__.
Callable(code, annotations) == [code |-> code, annotations |-> annotations]

\* A cached branch that loses the annotations of the entry.
CachedWithoutAnnotations(entry) == Callable(entry.code, <<>>)

\* The cached branch: create_function(annotations) re-executes the compiled
\* code of the entry and copies the entry's annotations.
CachedFunction(entry) == Callable(entry.code, entry.annotations)

\* The callable create_function_from_schema returns.
CreatedFunction(cache, schema, server_name) ==
    IF cache_key(schema, server_name) \in DOMAIN cache
    THEN CachedFunction(cache[cache_key(schema, server_name)])
    ELSE Callable(_build_function_code(schema, server_name), _create_annotations(schema))

\* Names that are no Python identifiers.  A tool or a property named so
\* makes the generated `def` line a syntax error.
NonIdentifiers == {"bad name", "bad-param"}

\* compile() and exec() of the generated source: they succeed when the
\* function name and every parameter of the signature are identifiers.
Compiles(code) ==
    /\ code.tool \notin NonIdentifiers
    /\ Range(code.signature) \cap NonIdentifiers = {}

\* The try block of create_function_from_schema raises: the key is not
\* cached and the source built from the schema does not compile.
CreateFails(cache, schema, server_name) ==
    /\ cache_key(schema, server_name) \notin DOMAIN cache
    /\ ~Compiles(_build_function_code(schema, server_name))

\* A builder that stores the entry before it compiles the source.
CacheAfterCreateStoringFirst(cache, schema, server_name) ==
    IF cache_key(schema, server_name) \in DOMAIN cache
    THEN cache
    ELSE cache @@ (cache_key(schema, server_name) :>
            [code        |-> _build_function_code(schema, server_name),
             annotations |-> _create_annotations(schema)])

\* The cache after create_function_from_schema.  The entry is stored after
\* everything that can raise.
CacheAfterCreate(cache, schema, server_name) ==
    IF cache_key(schema, server_name) \in DOMAIN cache \/ CreateFails(cache, schema, server_name)
    THEN cache
    ELSE cache @@ (cache_key(schema, server_name) :>
            [code        |-> _build_function_code(schema, server_name),
             annotations |-> _create_annotations(schema)])

\* Python's binding of keyword arguments to the generated signature: a keyword
\* that is no parameter, or a parameter without default that is not passed,
\* raises TypeError before the body runs.
BindFails(code, kwargs) ==
    \/ DOMAIN kwargs \ Range(code.signature) # {}
    \/ code.no_default \ DOMAIN kwargs # {}

\* locals() at the top of the body: every parameter, bound to the value passed
\* or to its default None.
LocalsDict(code, kwargs) ==
    [p \in Range(code.signature) |-> IF p \in DOMAIN kwargs THEN kwargs[p] ELSE None]

\* missing_params of the generated body.
MissingParams(code, kwargs) ==
    {p \in code.required_params :
        \/ p \notin DOMAIN LocalsDict(code, kwargs)
        \/ LocalsDict(code, kwargs)[p] = None}

\* A body that tests the truth of a local instead of `is not None`: a falsy
\* value is dropped with the nulls.
BuildParamsByTruthiness(code, kwargs) ==
    LET sel == SelectSeq(code.properties,
                         LAMBDA p : /\ p \in DOMAIN LocalsDict(code, kwargs)
                                    /\ LocalsDict(code, kwargs)[p] \notin {None, "zero"})
    IN  [i \in 1..Len(sel) |-> <<sel[i], LocalsDict(code, kwargs)[sel[i]]>>]

\* params of the generated body: the properties, in property order, whose
\* local is not None.
BuildParams(code, kwargs) ==
    LET sel == SelectSeq(code.properties,
                         LAMBDA p : /\ p \in DOMAIN LocalsDict(code, kwargs)
                                    /\ LocalsDict(code, kwargs)[p] # None)
    IN  [i \in 1..Len(sel) |-> <<sel[i], LocalsDict(code, kwargs)[sel[i]]>>]

\* One call of a generated function with keyword arguments.
CallOutcome(code, kwargs) ==
    IF BindFails(code, kwargs)
    THEN [kind |-> "TypeError", missing |-> {}, server |-> "", tool |-> "", params |-> <<>>]
    ELSE IF MissingParams(code, kwargs) # {}
    THEN [kind |-> "McpdError", missing |-> MissingParams(code, kwargs),
          server |-> "", tool |-> "", params |-> <<>>]
    ELSE [kind |-> "invoked", missing |-> {}, server |-> code.server,
          tool |-> code.tool, params |-> BuildParams(code, kwargs)]

----------------------------------------------------------------------------
(* Actions of the synthesizer.                                             *)

\* What a create_function_from_schema call that raised leaves on record:
\* McpdError("Error creating function <key>: ...").
CreateRaised(schema, server_name) ==
    [kind |-> "raised", schema |-> schema, server_name |-> server_name,
     error |-> "McpdError", key |-> cache_key(schema, server_name)]

create_function_from_schema(schema, server_name) ==
    /\ \/ cache_key(schema, server_name) \in DOMAIN function_cache
       \/ CreateFails(function_cache, schema, server_name)
       \/ Cardinality(DOMAIN function_cache) < MaxCached
    /\ function_cache' = CacheAfterCreate(function_cache, schema, server_name)
    /\ created' = IF CreateFails(function_cache, schema, server_name)
                  THEN CreateRaised(schema, server_name)
                  ELSE [kind |-> "created", schema |-> schema, server_name |-> server_name,
                        fn |-> CreatedFunction(function_cache, schema, server_name),
                        fresh |-> cache_key(schema, server_name) \notin DOMAIN function_cache,
                        after_failure |-> /\ created.kind = "raised"
                                          /\ created.key = cache_key(schema, server_name)]
    /\ call' = NoEntry
    /\ UNCHANGED <<tools_vars, health_vars, proxy_vars, thread_vars, unit_vars, alias_vars>>

clear_cache ==
    /\ function_cache # <<>>
    /\ function_cache' = <<>>
    /\ UNCHANGED <<created, call, tools_vars, health_vars, proxy_vars, thread_vars, unit_vars, alias_vars>>

CallFunction(kwargs) ==
    /\ created.kind = "created"
    /\ call' = [kind |-> "called", kwargs |-> kwargs,
                out |-> CallOutcome(created.fn.code, kwargs)]
    /\ UNCHANGED <<function_cache, created, tools_vars, health_vars, proxy_vars, thread_vars, unit_vars, alias_vars>>

\* The parts of the client a run does not exercise stay as constructed.
IdleTools ==
    /\ daemon_tools = <<>>
    /\ daemon_health = <<>>
    /\ agent = NoEntry

IdleProxy ==
    /\ probe = NoEntry
    /\ posts = <<>>

IdleThreads == threads = <<>>

\* The properties every tool definition of the daemon declares at first.
FirstProps == <<"x">>

IdleUnits ==
    /\ daemon_props = FirstProps
    /\ client = NoEntry
    /\ mapped = NoEntry

IdleAlias ==
    /\ heap = <<>>
    /\ handed = <<>>
    /\ entry_ref = <<>>

IdleHealth ==
    /\ IdleProxy
    /\ ttl = 0
    /\ now = 0
    /\ health_cache = <<>>
    /\ history = <<>>
    /\ calls = 0
    /\ fetches = 0
    /\ last = NoEntry

BuilderInit ==
    /\ function_cache = <<>>
    /\ created = NoEntry
    /\ call = NoEntry
    /\ IdleTools
    /\ IdleHealth
    /\ IdleThreads
    /\ IdleUnits
    /\ IdleAlias

BuilderCreate == \E schema \in Schemas, server_name \in ServerNames :
                    create_function_from_schema(schema, server_name)
BuilderClear == clear_cache
BuilderCall == \E kwargs \in KwArgs : CallFunction(kwargs)

BuilderNext == BuilderCreate \/ BuilderClear \/ BuilderCall

SpecBuilder == BuilderInit /\ [][BuilderNext]_vars

\* The synthesizer given tool definitions of which some cannot be turned
\* into a function: a tool name or a property name that is no identifier.
FailingShapes ==
    {[props |-> <<"x">>,              required |-> {"x"}],
     [props |-> <<"x", "y">>,         required |-> {"y"}],
     [props |-> <<"x", "bad-param">>, required |-> {"x"}],
     [props |-> <<"bad-param">>,      required |-> {}]}
FailingSchemas == {[name |-> t, props |-> sh.props, required |-> sh.required] :
                      t \in ToolNames \cup {"bad name"}, sh \in FailingShapes}

FailingCreate == \E schema \in FailingSchemas, server_name \in ServerNames :
                    create_function_from_schema(schema, server_name)
FailingClear == clear_cache
FailingCall == \E kwargs \in KwArgs : CallFunction(kwargs)

FailingNext == FailingCreate \/ FailingClear \/ FailingCall

SpecFailing == BuilderInit /\ [][FailingNext]_vars

----------------------------------------------------------------------------
(* TypeConverter: from a JSON Schema fragment to a type annotation.        *)

\* A schema fragment: a JSON object with the keys it has, or the boolean
\* schema `true`.  A key that is absent has the empty value of its kind.
Obj(keys, type, enum, items, anyOf) ==
    [json |-> "object", keys |-> keys, type |-> type, enum |-> enum,
     items |-> items, anyOf |-> anyOf]
TrueSchema ==
    [json |-> "true", keys |-> {}, type |-> "", enum |-> <<>>, items |-> <<>>, anyOf |-> <<>>]
EmptySchema == Obj({}, "", <<>>, <<>>, <<>>)
Typed(t) == Obj({"type"}, t, <<>>, <<>>, <<>>)
EnumOf(values) == Obj({"type", "enum"}, "string", values, <<>>, <<>>)
ArrayOf(item) == Obj({"type", "items"}, "array", <<>>, <<item>>, <<>>)
AnyOf(alternatives) == Obj({"anyOf"}, "", <<>>, <<>>, alternatives)

\* A type annotation: the members of the union it is, in order, each
\* written much as Python shows it.  A call of the mapper returns one or raises.
TypeOf(members) == [raised |-> FALSE, error |-> "", members |-> members]
TypeRaises(error) == [raised |-> TRUE, error |-> error, members |-> <<>>]
AnyType == TypeOf(<<"Any">>)

RECURSIVE Show(_)
Show(members) ==
    IF Len(members) = 1 THEN members[1] ELSE members[1] \o " | " \o Show(Tail(members))

RECURSIVE ShowValues(_)
ShowValues(values) ==
    CASE values = <<>> -> "()"
      [] Len(values) = 1 -> values[1]
      [] OTHER -> values[1] \o ", " \o ShowValues(Tail(values))

\* a | b: the members of a, then those of b that a does not have.
Or(a, b) == a \o SelectSeq(b, LAMBDA m : m \notin {a[i] : i \in 1..Len(a)})

\* result_type = union_types[0]; for union_type in union_types[1:]: result_type | union_type
RECURSIVE UnionOf(_)
UnionOf(types) ==
    IF Len(types) = 1 THEN types[1].members
    ELSE Or(UnionOf(SubSeq(types, 1, Len(types) - 1)), types[Len(types)].members)

\* The first of the calls that raised, if one did.
FirstRaised(outs) ==
    outs[CHOOSE i \in 1..Len(outs) : outs[i].raised /\ \A j \in 1..(i - 1) : ~outs[j].raised]

\* union_types[0] of an empty list.
UnionOfNone(alternatives) == TypeRaises("IndexError")

RECURSIVE parse_schema_type(_)
RECURSIVE json_type_to_python_type(_, _)

json_type_to_python_type(json_type, schema_def) ==
    CASE json_type = "string" ->
             IF "enum" \in schema_def.keys
             THEN TypeOf(<<"Literal[" \o ShowValues(schema_def.enum) \o "]">>)
             ELSE TypeOf(<<"str">>)
      [] json_type = "number" -> TypeOf(<<"int", "float">>)
      [] json_type = "integer" -> TypeOf(<<"int">>)
      [] json_type = "boolean" -> TypeOf(<<"bool">>)
      [] json_type = "array" ->
             IF "items" \in schema_def.keys
             THEN LET item_type == parse_schema_type(schema_def.items[1])
                  IN  IF item_type.raised THEN item_type
                      ELSE TypeOf(<<"list[" \o Show(item_type.members) \o "]">>)
             ELSE TypeOf(<<"list[Any]">>)
      [] json_type = "object" -> TypeOf(<<"dict[str, Any]">>)
      [] OTHER -> AnyType

\* `"anyOf" in schema_def` raises TypeError when schema_def is no container.
parse_schema_type(schema_def) ==
    IF schema_def.json # "object" THEN TypeRaises("TypeError")
    ELSE IF "anyOf" \in schema_def.keys
    THEN LET union_types == [i \in 1..Len(schema_def.anyOf) |->
                                parse_schema_type(schema_def.anyOf[i])]
         IN  IF \E i \in 1..Len(union_types) : union_types[i].raised
             THEN FirstRaised(union_types)
             ELSE IF union_types = <<>> THEN UnionOfNone(schema_def.anyOf)
             ELSE TypeOf(UnionOf(union_types))
    ELSE IF "type" \in schema_def.keys
    THEN json_type_to_python_type(schema_def.type, schema_def)
    ELSE AnyType

\* The fragments the mapper is given: the plain ones, unions of up to
\* MaxAlternatives alternatives and arrays of those, and unions and arrays
\* one level deeper.
MaxAlternatives == 2
PlainFragments ==
    {EmptySchema, TrueSchema, EnumOf(<<"a">>), EnumOf(<<"a", "b">>),
     Obj({"type"}, "array", <<>>, <<>>, <<>>)}
        \cup {Typed(t) : t \in {"string", "integer", "number", "boolean", "object", "null", "mystery"}}
Alternatives == {Typed("string"), Typed("integer"), EmptySchema}
OneDeepFragments ==
    {AnyOf(alts) : alts \in UNION {[1..n -> Alternatives] : n \in 0..MaxAlternatives}}
        \cup {ArrayOf(f) : f \in PlainFragments}
TwoDeepFragments ==
    {ArrayOf(f) : f \in OneDeepFragments}
        \cup {AnyOf(<<f>>) : f \in OneDeepFragments}
        \cup {AnyOf(<<f, Typed("string")>>) : f \in OneDeepFragments}
Fragments == PlainFragments \cup OneDeepFragments \cup TwoDeepFragments

ParseSchemaType(schema_def) ==
    /\ mapped' = [kind |-> "mapped", schema_def |-> schema_def,
                  out |-> parse_schema_type(schema_def)]
    /\ UNCHANGED <<builder_vars, tools_vars, health_vars, proxy_vars, thread_vars, client, alias_vars>>

TypesNext == \E schema_def \in Fragments : ParseSchemaType(schema_def)

SpecTypes == BuilderInit /\ [][TypesNext]_vars

----------------------------------------------------------------------------
(* FunctionBuilder: the __annotations__ dicts as objects.                  *)

\* A dict is mutable, so which dict object a callable or a cache entry
\* holds matters, not only what is in it.  heap[r] is what dict object r
\* holds now; each callable handed out is recorded with the dict object its
\* __annotations__ is and whether its holder has changed it.
MaxHanded == 3
AliasSchemas == {[name |-> "c", props |-> <<"x">>, required |-> {"x"}],
                 [name |-> "c", props |-> <<"x">>, required |-> {}]}
AliasServer == "a"
AliasKey == cache_key([name |-> "c"], AliasServer)

\* The callable that the call filling the present cache entry returned.
Filler == CHOOSE i \in 1..Len(handed) : handed[i].ref = entry_ref[AliasKey]

\* create_function_from_schema with the dict objects in view.  The first
\* call for a key makes one dict, gives it to the function it returns
\* (created_function.__annotations__ = annotations) and stores the same dict
\* in the cache entry; a later call gives the function a new dict, the copy
\* of the dict of the entry (annotations.copy()).  `made` is what
\* _create_annotations made for the schema the entry was built from.
AliasCreate(schema) ==
    /\ Len(handed) < MaxHanded
    /\ IF AliasKey \in DOMAIN entry_ref
       THEN /\ heap' = Append(heap, heap[entry_ref[AliasKey]])
            /\ handed' = Append(handed, [ref |-> Len(heap) + 1, changed |-> FALSE,
                                         first |-> FALSE, made |-> handed[Filler].made])
            /\ UNCHANGED entry_ref
       ELSE /\ heap' = Append(heap, _create_annotations(schema))
            /\ handed' = Append(handed, [ref |-> Len(heap) + 1, changed |-> FALSE,
                                         first |-> TRUE, made |-> _create_annotations(schema)])
            /\ entry_ref' = (AliasKey :> (Len(heap) + 1))
    /\ UNCHANGED <<builder_vars, tools_vars, health_vars, proxy_vars, thread_vars, unit_vars>>

\* The holder of callable i sets an annotation of it.
AliasMutate(i, type) ==
    /\ ~handed[i].changed
    /\ heap' = [heap EXCEPT ![handed[i].ref] = [@ EXCEPT !["x"] = type]]
    /\ handed' = [handed EXCEPT ![i].changed = TRUE]
    /\ UNCHANGED <<entry_ref, builder_vars, tools_vars, health_vars, proxy_vars, thread_vars, unit_vars>>

\* clear_cache: the entries go, the callables handed out stay with their
\* holders.
AliasClear ==
    /\ entry_ref # <<>>
    /\ entry_ref' = <<>>
    /\ UNCHANGED <<heap, handed, builder_vars, tools_vars, health_vars, proxy_vars, thread_vars, unit_vars>>

AliasCreates == \E schema \in AliasSchemas : AliasCreate(schema)
AliasMutates == \E i \in 1..Len(handed), type \in {"int", "str"} : AliasMutate(i, type)

AliasNext == AliasCreates \/ AliasMutates \/ AliasClear

SpecAlias == BuilderInit /\ [][AliasNext]_vars

----------------------------------------------------------------------------
(* McpdClient.__init__: the endpoint.                                      *)

\* An endpoint string is the sequence of its characters: a slash, a blank,
\* or a character that is neither.
EndpointChars == {"h", "/", " "}
MaxEndpointLen == 4
Endpoints == UNION {[1..n -> EndpointChars] : n \in 0..MaxEndpointLen}

\* str.rstrip(chars): drop the characters of chars from the right end.
RECURSIVE rstrip(_, _)
rstrip(str, chars) ==
    IF str # <<>> /\ str[Len(str)] \in chars
    THEN rstrip(SubSeq(str, 1, Len(str) - 1), chars)
    ELSE str

\* str.lstrip(chars)
RECURSIVE lstrip(_, _)
lstrip(str, chars) ==
    IF str # <<>> /\ str[1] \in chars THEN lstrip(Tail(str), chars) ELSE str

\* str.strip(): drop whitespace from both ends.
strip(str) == lstrip(rstrip(str, {" "}), {" "})

\* api_endpoint.rstrip("/").strip()
NormalisedEndpoint(api_endpoint) == strip(rstrip(api_endpoint, {"/"}))

\* f"{self._endpoint}/api/v1/servers", the path after the joining slash
\* kept as one character.
RequestUrl(_endpoint) == _endpoint \o <<"/", "api/v1/servers">>

McpdClient__init__(api_endpoint) ==
    /\ client' = IF NormalisedEndpoint(api_endpoint) = <<>>
                 THEN [kind |-> "raised", api_endpoint |-> api_endpoint,
                       error |-> "ValueError", _endpoint |-> <<>>, url |-> <<>>]
                 ELSE [kind |-> "constructed", api_endpoint |-> api_endpoint,
                       error |-> "", _endpoint |-> NormalisedEndpoint(api_endpoint),
                       url |-> RequestUrl(NormalisedEndpoint(api_endpoint))]
    /\ UNCHANGED <<builder_vars, tools_vars, health_vars, proxy_vars, thread_vars, mapped, alias_vars>>

ConstructNext == \E api_endpoint \in Endpoints : McpdClient__init__(api_endpoint)

SpecConstruct == BuilderInit /\ [][ConstructNext]_vars

----------------------------------------------------------------------------
(* Server health and its cache.                                            *)

\* server_health_cache_ttl: a number of seconds, 0, or math.inf.
Seconds(n) == [finite |-> TRUE, seconds |-> n]
Infinity == [finite |-> FALSE, seconds |-> 0]

\* The finite positive TTL the runs use, the last instant of the clock, and
\* how many server_health calls a run makes.
FiniteTTL == 2
MaxTime == 3
MaxCalls == 3

TTLs == {Seconds(0), Seconds(FiniteTTL), Infinity}

\* A cache one entry too large.
MaxsizeOffByOne == 100 + 1

\* McpdClient._SERVER_HEALTH_CACHE_MAXSIZE
_SERVER_HEALTH_CACHE_MAXSIZE == 100

\* A cacheable set that forgets the 404 failure, and one that takes in the
\* timeout.
CacheableWithoutNotFound == {"ServerUnhealthyError", "AuthenticationError"}
CacheableWithTimeout ==
    {"ServerNotFoundError", "ServerUnhealthyError", "AuthenticationError", "TimeoutError"}

\* McpdClient._CACHEABLE_EXCEPTIONS
_CACHEABLE_EXCEPTIONS == {"ServerNotFoundError", "ServerUnhealthyError", "AuthenticationError"}

\* What the HTTP session does with GET /api/v1/health/servers/<name>: a JSON
\* body, an HTTP error status, a requests exception, or (as the tests make the
\* session do) an exception that is no requests exception.
Json(status) == [t |-> "json", code |-> 200, body |-> status]
HTTPError(code) == [t |-> "HTTPError", code |-> code, body |-> ""]
Raises(exc) == [t |-> exc, code |-> 0, body |-> ""]

Transports ==
    {Json("ok"), Json("unreachable"),
     HTTPError(401), HTTPError(404), HTTPError(500),
     Raises("ConnectionError"), Raises("Timeout"), Raises("RequestException"),
     Raises("ServerUnhealthyError")}

\* The outcome of a lookup: a health record, or an SDK error.
Value(status) == [ok |-> TRUE, status |-> status, error |-> ""]
Error(kind) == [ok |-> FALSE, status |-> "", error |-> kind]
NoOutcome == Error("none")

\* _get_server_health(server_name): the JSON body, or the error the except
\* clauses translate the failure to; an exception they do not catch passes
\* through unchanged.
_get_server_health(server_name, transport) ==
    CASE transport.t = "json" -> Value(transport.body)
      [] transport.t = "ConnectionError" -> Error("ConnectionError")
      [] transport.t = "Timeout" -> Error("TimeoutError")
      [] transport.t = "HTTPError" /\ transport.code = 401 -> Error("AuthenticationError")
      [] transport.t = "HTTPError" /\ transport.code = 404 -> Error("ServerNotFoundError")
      [] transport.t = "HTTPError" -> Error("McpdError")
      [] transport.t = "RequestException" -> Error("McpdError")
      [] OTHER -> Error(transport.t)

\* A TTL of 0 taken for "not given" and replaced by a default.
FalsyTTLDefaulted(configured) ==
    IF configured = Seconds(0) THEN Seconds(FiniteTTL) ELSE configured

\* The TTL the cache is constructed with is the configured one.
EffectiveTTL(configured) == configured

\* With TTL 0 nothing is stored.
Stores(configured) ==
    ~(EffectiveTTL(configured).finite /\ EffectiveTTL(configured).seconds = 0)

\* When an entry stored at instant t expires.
Never == [never |-> TRUE, at |-> 0]

\* An expiry that adds the TTL's seconds whatever the TTL.
ExpiresAtIgnoringInfinity(configured, t) ==
    [never |-> FALSE, at |-> t + EffectiveTTL(configured).seconds]

ExpiresAt(configured, t) ==
    IF EffectiveTTL(configured).finite
    THEN [never |-> FALSE, at |-> t + EffectiveTTL(configured).seconds]
    ELSE Never

\* An entry still served at the instant of its expiry.
ExpiredAfterOnly(entry, t) == ~entry.expires.never /\ t > entry.expires.at

\* An entry is dead at and after its expiry.
Expired(entry, t) == ~entry.expires.never /\ t >= entry.expires.at

\* The cache is the sequence of its entries, oldest insertion first.
Keys(cache) == {cache[i].key : i \in DOMAIN cache}
EntryOf(cache, s) == cache[CHOOSE i \in DOMAIN cache : cache[i].key = s]
Without(cache, keys) == SelectSeq(cache, LAMBDA e : e.key \notin keys)
ExpiredKeys(cache, t) == {cache[i].key : i \in {j \in DOMAIN cache : Expired(cache[j], t)}}

\* A lookup is served from the cache when a live entry is there.
CacheHit(cache, s, t) == s \in Keys(cache) /\ ~Expired(EntryOf(cache, s), t)

\* An outcome is stored when it is a record or a cacheable failure.
Cacheable(outcome) == outcome.ok \/ outcome.error \in _CACHEABLE_EXCEPTIONS

\* The entries that stay when s is inserted at t: expired entries and an old
\* entry of s go first.
LiveEntries(cache, s, t) == Without(cache, ExpiredKeys(cache, t) \cup {s})

\* The keys evicted to make room for s: with the cache full, the oldest entry.
EvictedFor(cache, s, t) ==
    IF Len(LiveEntries(cache, s, t)) >= _SERVER_HEALTH_CACHE_MAXSIZE
    THEN {Head(LiveEntries(cache, s, t)).key}
    ELSE {}

\* The cache after outcome is stored for s at t.
Insert(cache, s, outcome, t, configured) ==
    Append(Without(LiveEntries(cache, s, t), EvictedFor(cache, s, t)),
           [key |-> s, outcome |-> outcome, expires |-> ExpiresAt(configured, t)])

\* The cache after the outcome of a fetch.
CacheAfterFetch(cache, s, outcome, t, configured) ==
    IF Cacheable(outcome) /\ Stores(configured)
    THEN Insert(cache, s, outcome, t, configured)
    ELSE cache

\* The keys a fetch's outcome pushes out of the cache.
EvictedByFetch(cache, s, outcome, t, configured) ==
    IF Cacheable(outcome) /\ Stores(configured) THEN EvictedFor(cache, s, t) ELSE {}

\* What the runs remember of a server's lookups: the outcome of the last one,
\* when the last fetch for it was made, and whether its entry was invalidated
\* or evicted since.
NoHistory == [prev |-> NoOutcome, fetched_at |-> 0, cleared |-> FALSE, evicted |-> FALSE]

HistoryAfter(s, outcome, fetched, evicted) ==
    [k \in DOMAIN history |->
        IF k = s
        THEN [prev |-> outcome,
              fetched_at |-> IF fetched THEN now ELSE history[s].fetched_at,
              cleared |-> FALSE, evicted |-> FALSE]
        ELSE IF k \in evicted THEN [history[k] EXCEPT !.evicted = TRUE]
        ELSE history[k]]

Count(n, counting) == IF counting THEN n + 1 ELSE n

\* server_health(server_name) served from the cache.
ServerHealthHit(s, counting) ==
    /\ CacheHit(health_cache, s, now)
    /\ last' = [kind |-> "lookup", server |-> s, at |-> now, fetched |-> FALSE,
                outcome |-> EntryOf(health_cache, s).outcome,
                before |-> history[s], had_entry |-> TRUE,
                size_before |-> Len(health_cache), evicted |-> {}]
    /\ history' = HistoryAfter(s, EntryOf(health_cache, s).outcome, FALSE, {})
    /\ calls' = Count(calls, counting)
    /\ UNCHANGED <<health_cache, fetches>>

\* server_health(server_name) fetching from the daemon.
ServerHealthMiss(s, transport, counting) ==
    LET outcome == _get_server_health(s, transport)
        evicted == EvictedByFetch(health_cache, s, outcome, now, ttl)
    IN  /\ ~CacheHit(health_cache, s, now)
        /\ health_cache' = CacheAfterFetch(health_cache, s, outcome, now, ttl)
        /\ last' = [kind |-> "lookup", server |-> s, at |-> now, fetched |-> TRUE,
                    outcome |-> outcome,
                    before |-> history[s], had_entry |-> s \in Keys(health_cache),
                    size_before |-> Len(health_cache), evicted |-> evicted]
        /\ history' = HistoryAfter(s, outcome, TRUE, evicted)
        /\ calls' = Count(calls, counting)
        /\ fetches' = Count(fetches, counting)

server_health(s, answers, counting) ==
    /\ \/ ServerHealthHit(s, counting)
       \/ \E transport \in answers : ServerHealthMiss(s, transport, counting)
    /\ UNCHANGED <<ttl, now, builder_vars, tools_vars, proxy_vars, thread_vars, unit_vars, alias_vars>>

\* An invalidation that leaves the entry where it is.
ClearLeavingEntry(s) ==
    /\ history' = [history EXCEPT ![s].cleared = TRUE]
    /\ last' = NoEntry
    /\ UNCHANGED <<ttl, now, health_cache, calls, fetches, builder_vars, tools_vars, proxy_vars, thread_vars, unit_vars, alias_vars>>

\* clear_server_health_cache(server_name): drop that server's entry.
clear_server_health_cache(s) ==
    /\ health_cache' = Without(health_cache, {s})
    /\ history' = [history EXCEPT ![s].cleared = TRUE]
    /\ last' = NoEntry
    /\ UNCHANGED <<ttl, now, calls, fetches, builder_vars, tools_vars, proxy_vars, thread_vars, unit_vars, alias_vars>>

\* clear_server_health_cache(): drop every entry.
clear_server_health_cache_all ==
    /\ health_cache' = <<>>
    /\ history' = [k \in DOMAIN history |-> [history[k] EXCEPT !.cleared = TRUE]]
    /\ last' = NoEntry
    /\ UNCHANGED <<ttl, now, calls, fetches, builder_vars, tools_vars, proxy_vars, thread_vars, unit_vars, alias_vars>>

\* Time passes.
Tick ==
    /\ now < MaxTime
    /\ now' = now + 1
    /\ last' = NoEntry
    /\ UNCHANGED <<ttl, health_cache, history, calls, fetches, builder_vars, tools_vars, proxy_vars, thread_vars, unit_vars, alias_vars>>

IdleBuilder ==
    /\ function_cache = <<>>
    /\ created = NoEntry
    /\ call = NoEntry

\* The servers whose health the runs look up, and what the daemon may answer
\* for each: everything for the first, a record, a cacheable and a
\* non-cacheable failure for the others.
Servers == {1, 2}
TransportsOf(s) ==
    IF s = 1 THEN Transports ELSE {Json("ok"), HTTPError(404), Raises("Timeout")}

HealthInit ==
    /\ IdleBuilder
    /\ IdleTools
    /\ IdleProxy
    /\ IdleThreads
    /\ IdleUnits
    /\ IdleAlias
    /\ ttl \in TTLs
    /\ now = 0
    /\ health_cache = <<>>
    /\ history = [s \in Servers |-> NoHistory]
    /\ calls = 0
    /\ fetches = 0
    /\ last = NoEntry

HealthLookup ==
    \E s \in Servers : calls < MaxCalls /\ server_health(s, TransportsOf(s), TRUE)
HealthClear == \E s \in Servers : clear_server_health_cache(s)
HealthClearAll == clear_server_health_cache_all
HealthTick == Tick

HealthNext == HealthLookup \/ HealthClear \/ HealthClearAll \/ HealthTick

SpecHealth == HealthInit /\ [][HealthNext]_vars

\* Runs that fill the cache: the first server is looked up and invalidated at
\* any moment, the others are looked up one after the other, each once, and
\* are healthy.  The clock stands still, so nothing expires.
ExtraServers == 2
FillServers == 1 .. (_SERVER_HEALTH_CACHE_MAXSIZE + ExtraServers)
FirstAnswers ==
    {Json("ok"), HTTPError(404), Raises("ServerUnhealthyError"), Raises("ConnectionError")}

FillInit ==
    /\ IdleBuilder
    /\ IdleTools
    /\ IdleProxy
    /\ IdleThreads
    /\ IdleUnits
    /\ IdleAlias
    /\ ttl \in {Infinity, Seconds(FiniteTTL)}
    /\ now = 0
    /\ health_cache = <<>>
    /\ history = [s \in FillServers |-> NoHistory]
    /\ calls = 0
    /\ fetches = 0
    /\ last = NoEntry

FillFirst == server_health(1, FirstAnswers, FALSE)
FillOther ==
    \E s \in FillServers \ {1} :
        /\ history[s].prev = NoOutcome
        /\ s = 2 \/ history[s - 1].prev # NoOutcome
        /\ server_health(s, {Json("ok")}, FALSE)
FillClear == clear_server_health_cache(1)

FillNext == FillFirst \/ FillOther \/ FillClear

SpecHealthFill == FillInit /\ [][FillNext]_vars

----------------------------------------------------------------------------
(* The health cache's guarantees.                                          *)

Lookup == last.kind = "lookup"

\* The lookup before this one, for the same server, had this outcome.
Repeats(outcome_set) == Lookup /\ last.before.prev \in outcome_set

Records == {Value("ok"), Value("unreachable")}
CacheableFailures ==
    {Error("ServerNotFoundError"), Error("ServerUnhealthyError"), Error("AuthenticationError")}
OtherFailures == {Error("ConnectionError"), Error("TimeoutError"), Error("McpdError")}

Undisturbed == ~last.before.cleared /\ ~last.before.evicted

\* The outcome of the last lookup sits in the cache for its server.
Stored ==
    \E i \in DOMAIN health_cache :
        /\ health_cache[i].key = last.server
        /\ health_cache[i].outcome = last.outcome

\* C4 as stated: with TTL infinity, once server_health(s) has returned a
\* health record, every later call of server_health(s) made before s is
\* invalidated performs no fetch and yields the same record.
C4_InfiniteTTLServedUntilInvalidated ==
    (ttl = Infinity /\ Repeats(Records) /\ ~last.before.cleared) =>
        (~last.fetched /\ last.outcome = last.before.prev)

\* C4: with TTL infinity, once server_health(s) has returned a health record,
\* every later call of server_health(s) made before s is invalidated, or
\* evicted to keep the cache within its 100 entries, performs no fetch and
\* yields the same record.
C4_InfiniteTTLServedUntilInvalidatedOrEvicted ==
    (ttl = Infinity /\ Repeats(Records) /\ Undisturbed) =>
        (~last.fetched /\ last.outcome = last.before.prev)

\* A record served again from a full cache.
C4_Witness ==
    /\ ttl = Infinity
    /\ Repeats(Records)
    /\ Undisturbed
    /\ ~last.fetched
    /\ last.size_before = 100

\* The lookup is made before the entry its predecessor's fetch stored expires.
BeforeExpiry == ~ttl.finite \/ last.at < last.before.fetched_at + ttl.seconds

\* A failed fetch is stored exactly when its kind is one of the three.
ExactlyTheThreeStored ==
    (Lookup /\ last.fetched /\ ~last.outcome.ok /\ ttl # Seconds(0)) =>
        (Stored <=> last.outcome \in CacheableFailures)

\* C5 as stated: the cacheable failures are exactly ServerNotFoundError,
\* ServerUnhealthyError and AuthenticationError; such a failure is stored, and
\* every later call before TTL expiry or invalidation re-raises a failure of
\* the same kind without a new fetch.
C5_CacheableFailureReraisedUntilInvalidated ==
    /\ ExactlyTheThreeStored
    /\ (Repeats(CacheableFailures) /\ BeforeExpiry /\ ~last.before.cleared) =>
           (~last.fetched /\ last.outcome = last.before.prev)

\* C5: the cacheable failures are exactly ServerNotFoundError,
\* ServerUnhealthyError and AuthenticationError; such a failure is stored, and
\* every later call before TTL expiry, invalidation or eviction to keep the
\* cache within its 100 entries re-raises a failure of the same kind without
\* a new fetch.
C5_CacheableFailureReraisedUntilInvalidatedOrEvicted ==
    /\ ExactlyTheThreeStored
    /\ (Repeats(CacheableFailures) /\ BeforeExpiry /\ Undisturbed) =>
           (~last.fetched /\ last.outcome = last.before.prev)

\* A stored failure raised again from a full cache.
C5_Witness ==
    /\ Repeats(CacheableFailures)
    /\ BeforeExpiry
    /\ Undisturbed
    /\ ~last.fetched
    /\ last.outcome = last.before.prev
    /\ last.size_before = 100

\* C6: a failure of any other kind (a connection failure, a timeout, a
\* generic error) stores nothing, and the next server_health call for that
\* server fetches again, whatever the TTL.
C6_OtherFailuresNeverCached ==
    /\ (Lookup /\ last.outcome \in OtherFailures) => (last.fetched /\ ~Stored)
    /\ Repeats(OtherFailures) => last.fetched

\* A fetch made right after a non-cacheable failure, with a TTL that would
\* have kept a stored outcome alive.
C6_Witness ==
    /\ Repeats(OtherFailures)
    /\ ttl = Infinity
    /\ ~last.before.cleared
    /\ last.fetched
    /\ last.outcome \in Records

\* C7: with TTL 0 every server_health call fetches and no earlier result is
\* reused: after n calls there have been exactly n fetches.
C7_ZeroTTLAlwaysFetches ==
    ttl = Seconds(0) =>
        /\ fetches = calls
        /\ Lookup => last.fetched
        /\ health_cache = <<>>

\* The same server looked up again at the same instant, and fetched again.
C7_Witness ==
    /\ ttl = Seconds(0)
    /\ Repeats(Records \cup CacheableFailures)
    /\ ~last.before.cleared
    /\ last.at = last.before.fetched_at
    /\ fetches = calls
    /\ calls >= 2

\* C8: with a finite positive TTL a cached outcome is never returned at or
\* after its expiry: a lookup at or after expiry always fetches.
C8_NothingServedAtOrAfterExpiry ==
    (ttl.finite /\ ttl.seconds > 0 /\ Lookup) =>
        /\ ~last.fetched => last.at < last.before.fetched_at + ttl.seconds
        /\ (last.before.prev # NoOutcome /\ last.at >= last.before.fetched_at + ttl.seconds)
               => last.fetched

\* An undisturbed cached outcome looked up at the very instant of its expiry.
C8_Witness ==
    /\ ttl.finite /\ ttl.seconds > 0
    /\ Repeats(Records \cup CacheableFailures)
    /\ ~last.before.cleared
    /\ last.had_entry
    /\ last.at = last.before.fetched_at + ttl.seconds
    /\ last.fetched

\* C9: after clear_server_health_cache(s) the next server_health(s) call
\* fetches, even with TTL infinity; before the invalidation the entry is
\* served from the cache.
C9_InvalidationForcesFetch ==
    /\ (Lookup /\ last.before.cleared) => (last.fetched /\ ~last.had_entry)
    /\ (ttl = Infinity /\ Lookup /\ last.had_entry) =>
           (~last.fetched /\ last.outcome = last.before.prev)

\* A record cached for ever, invalidated, and fetched anew.
C9_Witness ==
    /\ ttl = Infinity
    /\ Repeats(Records \cup CacheableFailures)
    /\ last.before.cleared
    /\ last.fetched

\* C10: the health cache holds at most 100 entries; an insertion into a full
\* cache evicts one existing entry, and the cache stays full.
C10_CacheBoundedByEviction ==
    /\ Len(health_cache) <= 100
    /\ (Lookup /\ last.fetched /\ Stored /\ ~last.had_entry /\ last.size_before = 100) =>
           /\ Cardinality(last.evicted) = 1
           /\ last.evicted \cap Keys(health_cache) = {}
           /\ \A k \in last.evicted : history[k].evicted
           /\ \A k \in last.evicted : k # last.server /\ history[k].prev # NoOutcome
           /\ Len(health_cache) = 100

\* The insertion of a 101st entry.
C10_Witness ==
    /\ Lookup
    /\ last.fetched
    /\ Stored
    /\ last.size_before = 100
    /\ last.evicted # {}
    /\ Len(health_cache) = 100

----------------------------------------------------------------------------
(* The synthesized function's call-time validation.                        *)

\* The required names a call leaves absent: not passed, or passed as None,
\* the marker the generated signature gives an optional parameter.
NotSupplied(schema, kwargs) ==
    {r \in schema.required : r \notin DOMAIN kwargs \/ kwargs[r] = None}

\* A call of the function freshly built for created.schema that passes only
\* names of the schema's properties.
CallOfBuiltFunction ==
    /\ call.kind = "called"
    /\ created.kind = "created"
    /\ created.fresh
    /\ DOMAIN call.kwargs \subseteq Range(created.schema.props)

\* C1: the function built from a schema with required names R fails with the
\* validation error (McpdError "Missing required parameters") if and only if
\* the caller left some name of R absent, the error lists every absent name of
\* R, and with every name of R supplied the tool is invoked.
C1_ValidationIffRequiredAbsent ==
    CallOfBuiltFunction =>
        LET absent == NotSupplied(created.schema, call.kwargs)
        IN  /\ (call.out.kind = "McpdError") <=> (absent # {})
            /\ (call.out.kind = "McpdError") => (call.out.missing = absent)
            /\ (absent = {}) => (call.out.kind = "invoked")

----------------------------------------------------------------------------
(* The daemon and the tool resolution policy.                              *)

\* HealthStatus
HealthStatuses == {"ok", "timeout", "unreachable", "unknown"}

\* A health test that passes every status.
AnyStatusHealthy(status) == status \in HealthStatuses

\* HealthStatus.is_healthy
is_healthy(status) == status = "ok"

\* HealthStatus.is_transient
is_transient(status) == status \in {"timeout", "unknown"}

\* GET /api/v1/servers: the daemon lists its servers in this order.
ServerOrder == <<"a", "a__b">>

\* The tool lists a server may advertise.
ToolLists == {<<"c">>, <<"b__c", "c">>}

\* The health maps the daemon may report.
HealthMap(a, b) == ("a" :> a) @@ ("a__b" :> b)
HealthMaps ==
    {HealthMap("ok", "ok"), HealthMap("ok", "timeout"), HealthMap("timeout", "ok"),
     HealthMap("unreachable", "ok"), HealthMap("unknown", "ok"),
     HealthMap("timeout", "unreachable"), HealthMap("unknown", "unknown")}

\* The definition the daemon gives for a tool.
ToolSchema(t) == [name |-> t, props |-> daemon_props, required |-> {"x"}]

\* An optional list argument: not given (None), or the names given.
NotGiven == [given |-> FALSE, names |-> {}]
Given(names) == [given |-> TRUE, names |-> names]

ServerFilters == {NotGiven, Given({}), Given({"a"}), Given({"nosuch"})}
ToolFilters == {NotGiven, Given({}), Given({"c"}), Given({"a__b__c"})}

\* What can go wrong on the network during one agent_tools call: nothing, or
\* the request for the server list, the health map or a tool list fails, in
\* one of the ways a request fails.
NetOk == [fails |-> "none", transport |-> Json("")]
NetFails(request, transport) == [fails |-> request, transport |-> transport]
FailingTransports ==
    {HTTPError(401), HTTPError(500), Raises("ConnectionError"), Raises("Exception")}
NetOutcomes ==
    {NetOk} \cup {NetFails(r, t) : r \in {"servers", "health", "tools"}, t \in FailingTransports}

\* The SDK's error kinds: every one of them is a McpdError.
McpdErrors ==
    {"McpdError", "ConnectionError", "TimeoutError", "AuthenticationError",
     "ServerNotFoundError", "ServerUnhealthyError", "ToolExecutionError"}

\* servers(): the error its except clauses raise for a failed request.
servers_error(transport) ==
    CASE transport.t = "ConnectionError" -> "ConnectionError"
      [] transport.t = "Timeout" -> "TimeoutError"
      [] transport.t = "HTTPError" /\ transport.code = 401 -> "AuthenticationError"
      [] transport.t = "HTTPError" -> "McpdError"
      [] transport.t = "RequestException" -> "McpdError"
      [] OTHER -> transport.t

\* _get_tool_definitions(server_name): the error its except clauses raise.
_get_tool_definitions_error(transport) ==
    CASE transport.t = "ConnectionError" -> "ConnectionError"
      [] transport.t = "Timeout" -> "TimeoutError"
      [] transport.t = "HTTPError" /\ transport.code = 401 -> "AuthenticationError"
      [] transport.t = "HTTPError" /\ transport.code = 404 -> "ServerNotFoundError"
      [] transport.t = "HTTPError" -> "McpdError"
      [] transport.t = "RequestException" -> "McpdError"
      [] OTHER -> transport.t

\* server_health() without a name: a McpdError of _get_server_health is
\* raised again as a plain McpdError, anything else passes through.
server_health_all_error(transport) ==
    IF _get_server_health(None, transport).error \in McpdErrors
    THEN "McpdError"
    ELSE _get_server_health(None, transport).error

\* servers(): the names the daemon lists.
servers == ServerOrder

\* server_health() without a name: one request, the records keyed by name.
server_health_all == daemon_health

\* The servers agent_tools builds functions for: with health checking, those
\* the health map reports healthy.
HealthyServers(server_names, check_health) ==
    IF check_health
    THEN SelectSeq(server_names,
                   LAMBDA s : /\ s \in DOMAIN server_health_all
                              /\ is_healthy(server_health_all[s]))
    ELSE server_names

\* tools(): for each server in turn, its tool definitions, flattened to
\* <<server, tool>> pairs in server order, then definition order.
RECURSIVE ToolPairs(_)
ToolPairs(server_names) ==
    IF server_names = <<>>
    THEN <<>>
    ELSE LET s == Head(server_names)
         IN  [i \in 1..Len(daemon_tools[s]) |-> <<s, daemon_tools[s][i]>>]
                \o ToolPairs(Tail(server_names))

\* A loop that leaves out a definition no function can be made from and
\* goes on with the definitions after it.
SkipFailedCreate(cache, rest) == rest

\* A create_function_from_schema call that raises inside the loop of
\* agent_tools: nothing catches the McpdError, so the loop ends there with
\* no list, and the entries stored so far stay.
OnCreateFailure(cache, rest) == [cache |-> cache, built |-> <<>>, raised |-> TRUE]

\* The loop of agent_tools: create_function_from_schema for each definition,
\* in order, each call seeing the cache the calls before it left.
RECURSIVE BuildAll(_, _)
BuildAll(cache, pairs) ==
    IF pairs = <<>>
    THEN [cache |-> cache, built |-> <<>>, raised |-> FALSE]
    ELSE LET s == Head(pairs)[1]
             schema == ToolSchema(Head(pairs)[2])
             rest == BuildAll(CacheAfterCreate(cache, schema, s), Tail(pairs))
         IN  IF CreateFails(cache, schema, s)
             THEN OnCreateFailure(cache, rest)
             ELSE [cache |-> rest.cache,
                   built |-> <<[server_name |-> s, tool |-> schema.name,
                                fn |-> CreatedFunction(cache, schema, s)]>> \o rest.built,
                   raised |-> rest.raised]

\* The metadata a generated tool carries.  A callable served from the function
\* cache is made from the entry alone, so it carries what the entry was built
\* with.
_server_name(fn) == fn.code.server
_tool_name(fn) == fn.code.tool
_schema(fn) == [name |-> fn.code.tool, props |-> fn.code.properties,
                required |-> fn.code.required_params]
__name__(fn) == fn.code.name

\* The servers filter: keep a function whose _server_name is listed.
MatchesServerFilter(fn, filter) ==
    filter.given => _server_name(fn) \in filter.names

\* The tools filter: keep a function whose bare tool name or whose qualified
\* name is listed, compared as whole strings.
MatchesToolFilter(fn, filter) ==
    filter.given => (_tool_name(fn) \in filter.names \/ __name__(fn) \in filter.names)

FilterBuilt(built, server_filter, tool_filter) ==
    SelectSeq(built, LAMBDA b : /\ MatchesServerFilter(b.fn, server_filter)
                                /\ MatchesToolFilter(b.fn, tool_filter))

\* A health failure swallowed: the call goes on with no server kept.
SwallowHealthFailure(error) == [raised |-> FALSE, error |-> ""]

\* A failure of the health lookup leaves agent_tools as it was raised.
OnHealthFailure(error) == [raised |-> TRUE, error |-> error]

\* The requests of one agent_tools call, in order: the server list, the
\* health map when health is checked, then the tool list of each server kept.
ToolRequests(server_names) == [i \in 1..Len(server_names) |-> "tools:" \o server_names[i]]
RequestsMade(check_health, net) ==
    <<"servers">>
        \o (IF net.fails # "servers" /\ check_health THEN <<"health">> ELSE <<>>)
        \o (CASE net.fails = "none" -> ToolRequests(HealthyServers(servers, check_health))
               [] net.fails = "tools" -> SubSeq(ToolRequests(HealthyServers(servers, check_health)), 1, 1)
               [] OTHER -> <<>>)

\* Whether the failing request of net is one the call gets to make.
NetFailureHits(check_health, net) ==
    CASE net.fails = "none" -> FALSE
      [] net.fails = "servers" -> TRUE
      [] net.fails = "health" -> check_health
      [] OTHER -> HealthyServers(servers, check_health) # <<>>

\* tools() without a name, which agent_tools calls for the definitions: a
\* McpdError of servers() or of _get_tool_definitions is raised again as a
\* plain McpdError, anything else passes through.
tools_all_error(error) == IF error \in McpdErrors THEN "McpdError" ELSE error

\* The error of the request that failed, as servers() or
\* _get_tool_definitions raises it.
FetchError(net) ==
    IF net.fails = "servers" THEN servers_error(net.transport)
    ELSE _get_tool_definitions_error(net.transport)

\* How the call ends when a request fails.
FailureOutcome(net) ==
    CASE net.fails = "health" -> OnHealthFailure(server_health_all_error(net.transport))
      [] OTHER -> [raised |-> TRUE, error |-> tools_all_error(FetchError(net))]

agent_tools(server_filter, tool_filter, check_health, net) ==
    LET hit == NetFailureHits(check_health, net)
        stopped == hit /\ FailureOutcome(net).raised
        swallowed == hit /\ ~FailureOutcome(net).raised
        pairs == IF swallowed THEN <<>> ELSE ToolPairs(HealthyServers(servers, check_health))
        run == BuildAll(function_cache, pairs)
        failed == stopped \/ run.raised
    IN  /\ net.fails # "none" => hit
        /\ function_cache' = IF stopped THEN function_cache ELSE run.cache
        /\ agent' = [kind |-> IF failed THEN "raised" ELSE "returned",
                     servers |-> server_filter, tools |-> tool_filter,
                     check_health |-> check_health, net |-> net,
                     error |-> CASE stopped -> FailureOutcome(net).error
                                 [] failed -> "McpdError"
                                 [] OTHER -> "",
                     requests |-> RequestsMade(check_health, net),
                     after_clear |-> agent.kind = "cleared",
                     found |-> IF agent.kind = "cleared" THEN function_cache ELSE <<>>,
                     dropped |-> IF agent.kind = "cleared" THEN agent.dropped ELSE <<>>,
                     built |-> IF failed THEN <<>> ELSE run.built,
                     result |-> IF failed THEN <<>>
                                ELSE FilterBuilt(run.built, server_filter, tool_filter)]
        /\ UNCHANGED <<created, call, daemon_tools, daemon_health, daemon_props, health_vars, proxy_vars, thread_vars, unit_vars, alias_vars>>

\* The client's last call was a clear: the entries it dropped.  The record
\* is kept by the runs that look at the call after a clear.
Cleared(dropped) == [kind |-> "cleared", dropped |-> dropped]

\* What is left of the record of the last call when the daemon changes: a
\* clear stays the last call, the outcome of an agent_tools call is of the
\* daemon as it was.
AfterDaemonChange == IF agent.kind = "cleared" THEN agent ELSE NoEntry

\* A clear that leaves the entries in the cache.
ClearLeavingFunctions(recording) ==
    /\ function_cache # <<>>
    /\ function_cache' = function_cache
    /\ agent' = IF recording THEN Cleared(function_cache) ELSE NoEntry
    /\ UNCHANGED <<created, call, daemon_tools, daemon_health, daemon_props, health_vars, proxy_vars, thread_vars, unit_vars, alias_vars>>

clear_agent_tools_cache(recording) ==
    /\ function_cache # <<>>
    /\ function_cache' = <<>>
    /\ agent' = IF recording THEN Cleared(function_cache) ELSE NoEntry
    /\ UNCHANGED <<created, call, daemon_tools, daemon_health, daemon_props, health_vars, proxy_vars, thread_vars, unit_vars, alias_vars>>

\* The daemon's configuration changes: a server advertises another tool list.
DaemonRetools(s, list) ==
    /\ daemon_tools[s] # list
    /\ daemon_tools' = [daemon_tools EXCEPT ![s] = list]
    /\ agent' = AfterDaemonChange
    /\ UNCHANGED <<builder_vars, daemon_health, daemon_props, health_vars, proxy_vars, thread_vars, unit_vars, alias_vars>>

\* The health of the servers changes.
DaemonHealth(map) ==
    /\ daemon_health # map
    /\ daemon_health' = map
    /\ agent' = AfterDaemonChange
    /\ UNCHANGED <<builder_vars, daemon_tools, daemon_props, health_vars, proxy_vars, thread_vars, unit_vars, alias_vars>>

\* The property lists the daemon's tool definitions may declare.
PropLists == {<<"x">>, <<"x", "y">>}

\* The tools of the daemon are redefined: their definitions declare other
\* properties.
DaemonReshape(props) ==
    /\ daemon_props # props
    /\ daemon_props' = props
    /\ agent' = AfterDaemonChange
    /\ UNCHANGED <<builder_vars, daemon_tools, daemon_health, health_vars, proxy_vars, thread_vars, unit_vars, alias_vars>>

ToolsInit ==
    /\ function_cache = <<>>
    /\ created = NoEntry
    /\ call = NoEntry
    /\ daemon_tools \in [Range(ServerOrder) -> ToolLists]
    /\ daemon_health \in HealthMaps
    /\ agent = NoEntry
    /\ IdleHealth
    /\ IdleThreads
    /\ IdleUnits
    /\ IdleAlias

ToolsAgentTools == \E sf \in ServerFilters, tf \in ToolFilters, ch \in BOOLEAN :
                      \E net \in (IF sf.given \/ tf.given THEN {NetOk} ELSE NetOutcomes) :
                          agent_tools(sf, tf, ch, net)
ToolsClear == clear_agent_tools_cache(FALSE)
ToolsRetools == \E s \in Range(ServerOrder), list \in ToolLists : DaemonRetools(s, list)
ToolsHealth == \E map \in HealthMaps : DaemonHealth(map)

ToolsNext == ToolsAgentTools \/ ToolsClear \/ ToolsRetools \/ ToolsHealth

SpecTools == ToolsInit /\ [][ToolsNext]_vars

\* The same client in front of a daemon whose tool definitions change:
\* agent_tools without filters on a network that works.
RegenAgentTools == \E ch \in BOOLEAN : agent_tools(NotGiven, NotGiven, ch, NetOk)
RegenClear == clear_agent_tools_cache(TRUE)
RegenReshape == \E props \in PropLists : DaemonReshape(props)
RegenRetools == \E s \in Range(ServerOrder), list \in ToolLists : DaemonRetools(s, list)
RegenHealth == \E map \in {HealthMap("ok", "ok"), HealthMap("timeout", "ok")} : DaemonHealth(map)

RegenNext == RegenAgentTools \/ RegenClear \/ RegenReshape \/ RegenRetools \/ RegenHealth

SpecRegen == ToolsInit /\ [][RegenNext]_vars

\* The same client when a request of agent_tools fails in each of the ways
\* servers() and _get_tool_definitions tell apart.
FetchTransports ==
    {Raises("ConnectionError"), Raises("Timeout"), HTTPError(401), HTTPError(404),
     HTTPError(500), Raises("RequestException"), Raises("Exception")}
FetchOutcomes == {NetOk} \cup {NetFails(r, t) : r \in {"servers", "tools"}, t \in FetchTransports}

FetchAgentTools == \E ch \in BOOLEAN, net \in FetchOutcomes : agent_tools(NotGiven, NotGiven, ch, net)
FetchClear == clear_agent_tools_cache(FALSE)
FetchHealth == \E map \in {HealthMap("ok", "ok"), HealthMap("timeout", "ok")} : DaemonHealth(map)

FetchNext == FetchAgentTools \/ FetchClear \/ FetchHealth

SpecFetch == ToolsInit /\ [][FetchNext]_vars

\* The same client in front of a daemon of which a server may list a tool
\* no function can be generated for, and whose requests may fail.
PartlyBadToolLists == {<<"c">>, <<"b__c", "c">>, <<"c", "bad name">>, <<"bad name", "c">>}
PartialOutcomes ==
    {NetOk, NetFails("servers", Raises("ConnectionError")), NetFails("tools", HTTPError(404))}

PartialInit ==
    /\ function_cache = <<>>
    /\ created = NoEntry
    /\ call = NoEntry
    /\ daemon_tools \in [Range(ServerOrder) -> PartlyBadToolLists]
    /\ daemon_health = HealthMap("ok", "ok")
    /\ agent = NoEntry
    /\ IdleHealth
    /\ IdleThreads
    /\ IdleUnits
    /\ IdleAlias

PartialAgentTools == \E ch \in BOOLEAN, net \in PartialOutcomes : agent_tools(NotGiven, NotGiven, ch, net)
PartialClear == clear_agent_tools_cache(FALSE)
PartialRetools == \E s \in Range(ServerOrder), list \in PartlyBadToolLists : DaemonRetools(s, list)
PartialHealth == \E map \in {HealthMap("ok", "ok"), HealthMap("timeout", "ok")} : DaemonHealth(map)

PartialNext == PartialAgentTools \/ PartialClear \/ PartialRetools \/ PartialHealth

SpecPartial == PartialInit /\ [][PartialNext]_vars

----------------------------------------------------------------------------
(* The tool resolution policy: name filter and health gate.                *)

\* The <<server, tool>> a list of built functions was synthesized for.
BuiltFor(built) == [i \in 1..Len(built) |-> <<built[i].server_name, built[i].tool>>]

\* The servers the last agent_tools call kept.  The daemon is as the call
\* saw it: agent is reset whenever the daemon changes.
SurvivingServers == HealthyServers(servers, agent.check_health)

\* The tools of the given pairs whose bare name or whose qualified name
\* "<server>__<tool>" is listed, as whole strings.
NamedIn(pairs, names) ==
    SelectSeq(pairs, LAMBDA p : p[2] \in names \/ (p[1] \o "__" \o p[2]) \in names)

\* C2: agent_tools with a tools list returns exactly the generated tools of
\* the surviving servers whose bare tool name or qualified name is in the
\* list, nothing for an empty list, and synthesizes every tool of every
\* surviving server whatever the list.
C2_ToolsFilterKeepsNamedTools ==
    (agent.kind = "returned" /\ agent.tools.given /\ ~agent.servers.given) =>
        /\ BuiltFor(agent.result) = NamedIn(ToolPairs(SurvivingServers), agent.tools.names)
        /\ (agent.tools.names = {}) => (agent.result = <<>>)
        /\ BuiltFor(agent.built) = ToolPairs(SurvivingServers)

\* C3: with health checking on, every callable agent_tools returns is for a
\* tool of a server whose status is "ok" (the server it was listed on and the
\* server it calls), no function is synthesized for any other server, and
\* with no healthy server the result is empty.
C3_OnlyHealthyServersExposed ==
    (agent.kind = "returned" /\ agent.check_health) =>
        /\ \A i \in 1..Len(agent.result) :
              /\ is_healthy(daemon_health[agent.result[i].server_name])
              /\ is_healthy(daemon_health[_server_name(agent.result[i].fn)])
        /\ \A i \in 1..Len(agent.built) :
              is_healthy(daemon_health[agent.built[i].server_name])
        /\ (\A s \in DOMAIN daemon_health : ~is_healthy(daemon_health[s])) =>
              (agent.result = <<>>)

\* Every function the last call built is the function of the pair it was
\* built for: no cache key served it another pair's function.
BuiltAsListed ==
    agent.kind = "returned" /\ \A i \in 1..Len(agent.built) :
        /\ _server_name(agent.built[i].fn) = agent.built[i].server_name
        /\ _tool_name(agent.built[i].fn) = agent.built[i].tool

\* The name filter and the health gate do what C2 and C3 say in every call
\* in which no two listed tools share a cache key.
NameFilterWithoutKeyCollision == BuiltAsListed => C2_ToolsFilterKeepsNamedTools
HealthGateWithoutKeyCollision == BuiltAsListed => C3_OnlyHealthyServersExposed

----------------------------------------------------------------------------
(* The tool resolution policy: the servers filter and failures.            *)

\* The servers a call with these arguments has to fetch the tools of, read
\* off the daemon's health map.
ServersToFetch ==
    IF agent.check_health
    THEN SelectSeq(ServerOrder, LAMBDA s : daemon_health[s] = "ok")
    ELSE ServerOrder

\* The requests of a call that filters nothing away before fetching.
FullRequests ==
    <<"servers">> \o (IF agent.check_health THEN <<"health">> ELSE <<>>)
        \o [i \in 1..Len(ServersToFetch) |-> "tools:" \o ServersToFetch[i]]

\* C11 as stated: agent_tools(servers=[]) returns the empty list and makes
\* no server-list, tool-list or health request.
C11_EmptyServersMakesNoRequest ==
    (agent.kind \in {"returned", "raised"} /\ agent.servers = Given({})) =>
        /\ agent.kind = "returned"
        /\ agent.result = <<>>
        /\ agent.requests = <<>>

\* C11: agent_tools(servers=[]) returns the empty list, after the same
\* server-list, health and tool-list requests as a call without a servers
\* list: the functions of every server kept are built and then all filtered
\* out.
C11_EmptyServersFiltersAfterFetching ==
    (agent.kind \in {"returned", "raised"} /\ agent.servers = Given({})) =>
        /\ agent.kind = "returned"
        /\ agent.result = <<>>
        /\ agent.requests = FullRequests
        /\ Len(agent.built) = Len(ToolPairs(ServersToFetch))

\* An empty servers list, an empty result, and yet functions built.
C11_Witness ==
    /\ agent.kind = "returned"
    /\ agent.servers = Given({})
    /\ agent.result = <<>>
    /\ agent.check_health
    /\ "health" \in Range(agent.requests)
    /\ "tools:a" \in Range(agent.requests)
    /\ "tools:a__b" \notin Range(agent.requests)
    /\ agent.built # <<>>

\* C12: agent_tools(servers=L) builds a function for every tool of every
\* healthy server the daemon lists, not only for the servers of L, and
\* returns exactly the functions built for a server of L, in build order;
\* with L empty or naming no known server the result is empty although the
\* functions were built.
C12_ServersFilterAfterBuildingAll ==
    (agent.kind = "returned" /\ agent.servers.given /\ ~agent.tools.given) =>
        /\ BuiltFor(agent.built) = ToolPairs(SurvivingServers)
        /\ agent.result = SelectSeq(agent.built,
                                    LAMBDA b : b.server_name \in agent.servers.names)
        /\ \A i \in 1..Len(agent.result) :
               _server_name(agent.result[i].fn) = agent.result[i].server_name
        /\ (agent.servers.names \cap Range(ServerOrder) = {}) => (agent.result = <<>>)

\* The servers filter does what C12 says in every call in which no two
\* listed tools share a cache key.
ServersFilterWithoutKeyCollision == BuiltAsListed => C12_ServersFilterAfterBuildingAll

\* C13: when the health lookup of a health-checking agent_tools call fails
\* (no failure of the all-servers lookup is a cacheable one), agent_tools
\* raises that failure: it returns no list.
C13_HealthFailurePropagates ==
    (agent.kind \in {"returned", "raised"} /\ agent.check_health /\ agent.net.fails = "health") =>
        /\ agent.kind = "raised"
        /\ agent.error = server_health_all_error(agent.net.transport)
        /\ agent.error \notin _CACHEABLE_EXCEPTIONS
        /\ agent.result = <<>>

\* A health lookup that failed with an exception that is no McpdError.
C13_Witness ==
    /\ agent.kind = "raised"
    /\ agent.check_health
    /\ agent.net = NetFails("health", Raises("Exception"))
    /\ agent.error = "Exception"
    /\ agent.requests = <<"servers", "health">>

----------------------------------------------------------------------------
(* Existence and health checks, and the dynamic caller client.call.        *)

\* `if server_name:` is false for the empty name.
Truthy(server_name) == server_name # ""

\* The names the checks are asked about: a server the daemon has, one it has
\* not, and the empty name; a tool that may be listed and one that is not.
LookupServers == {"a", "nosuch", ""}
LookupTools == {"c", "nosuch"}

\* An entry of the "tools" array: a definition object, or a value that is no
\* object.  The keys of a dict, which iterating a dict yields, are no objects
\* either.
Definition(t) == [object |-> TRUE, name |-> t]
NoObject == [object |-> FALSE, name |-> ""]

\* Answers to GET /api/v1/servers/<name>/tools (or, for a call without a
\* name, to GET /api/v1/servers): a body with the "tools" the daemon has,
\* with "tools": null, with an entry that is no object, or a failure.
Listing(defs) == [t |-> "json", code |-> 200, defs |-> defs, null |-> FALSE]
NullListing == [t |-> "json", code |-> 200, defs |-> <<>>, null |-> TRUE]
Failing(transport) == [t |-> transport.t, code |-> transport.code, defs |-> <<>>, null |-> FALSE]

Failures ==
    {Failing(HTTPError(401)), Failing(HTTPError(500)), Failing(Raises("ConnectionError")),
     Failing(Raises("Timeout")), Failing(Raises("RequestException")),
     Failing(Raises("Exception"))}

DaemonListing(server_name) ==
    IF server_name \in DOMAIN daemon_tools
    THEN Listing([i \in 1..Len(daemon_tools[server_name]) |->
                     Definition(daemon_tools[server_name][i])])
    ELSE Failing(HTTPError(404))

ToolsAnswers(server_name) ==
    IF Truthy(server_name)
    THEN {DaemonListing(server_name), NullListing,
          Listing(<<NoObject, Definition("c")>>), Listing(<<Definition("c"), NoObject>>)}
             \cup Failures
    ELSE {Listing(<<>>)} \cup Failures

\* What a call yields: a value, or an error raised.
Returned(value) == [kind |-> "returned", value |-> value, error |-> ""]
Raised(error) == [kind |-> "raised", value |-> FALSE, error |-> error]

\* _get_tool_definitions(server_name): data.get("tools", []), or the error of
\* the except clauses.
_get_tool_definitions(server_name, answer) ==
    IF answer.t = "json"
    THEN [raised |-> FALSE, error |-> "", null |-> answer.null, items |-> answer.defs]
    ELSE [raised |-> TRUE, error |-> _get_tool_definitions_error(answer),
          null |-> FALSE, items |-> <<>>]

\* tools(server_name): the definitions of that server; without a (truthy)
\* name the dict of all servers, whose iteration yields its keys, with every
\* McpdError raised again as a plain McpdError.  The answer is the one to the
\* first request; the daemon answers the others as it is.
tools(server_name, answer) ==
    IF Truthy(server_name)
    THEN _get_tool_definitions(server_name, answer)
    ELSE IF answer.t = "json"
    THEN [raised |-> FALSE, error |-> "", null |-> FALSE,
          items |-> [i \in 1..Len(servers) |-> NoObject]]
    ELSE [raised |-> TRUE,
          error |-> IF servers_error(answer) \in McpdErrors
                    THEN "McpdError" ELSE servers_error(answer),
          null |-> FALSE, items |-> <<>>]

\* any(tool.get("name") == tool_name for tool in tool_defs): stops at the
\* first match; .get on a value that is no object raises AttributeError.
RECURSIVE AnyNamed(_, _)
AnyNamed(items, tool_name) ==
    IF items = <<>> THEN Returned(FALSE)
    ELSE IF ~Head(items).object THEN Raised("AttributeError")
    ELSE IF Head(items).name = tool_name THEN Returned(TRUE)
    ELSE AnyNamed(Tail(items), tool_name)

\* has_tool(server_name, tool_name): only a McpdError becomes False.
has_tool(server_name, tool_name, answer) ==
    LET tool_defs == tools(server_name, answer)
    IN  IF tool_defs.raised
        THEN IF tool_defs.error \in McpdErrors THEN Returned(FALSE) ELSE Raised(tool_defs.error)
        ELSE IF tool_defs.null THEN Raised("TypeError")
        ELSE AnyNamed(tool_defs.items, tool_name)

\* A health record without a "status" key.
MissingStatus == "<no status>"

\* Answers to GET /api/v1/health/servers/<name> (or, without a name, to GET
\* /api/v1/health/servers, whose body Json("") stands for): what the daemon
\* has for the server, any other status the server may have by the time of
\* the request, a body without a status, or a failure.
DaemonHealthAnswer(server_name) ==
    IF ~Truthy(server_name) THEN Json("")
    ELSE IF server_name \in DOMAIN daemon_health THEN Json(daemon_health[server_name])
    ELSE HTTPError(404)

HealthAnswers(server_name) ==
    {DaemonHealthAnswer(server_name), HTTPError(401), HTTPError(500),
     Raises("ConnectionError"), Raises("Timeout"), Raises("RequestException"),
     Raises("ServerUnhealthyError"), Raises("Exception")}
        \cup (IF server_name \in DOMAIN daemon_health
              THEN {Json(status) : status \in HealthStatuses \cup {"weird", MissingStatus}}
              ELSE {})

\* server_health(server_name) as src has it, without a cache: the record of
\* the named server, or the error; without a (truthy) name the dict keyed by
\* server name.
server_health_uncached(server_name, answer) ==
    IF Truthy(server_name)
    THEN [dict |-> FALSE, outcome |-> _get_server_health(server_name, answer)]
    ELSE IF answer.t = "json"
    THEN [dict |-> TRUE, outcome |-> Value("")]
    ELSE [dict |-> TRUE, outcome |-> Error(server_health_all_error(answer))]

\* _raise_for_server_health(server_name): health["status"], which a record
\* without the key and the dict of all servers do not have, then
\* ServerUnhealthyError unless the status is healthy.  "" is no error.
_raise_for_server_health(server_name, answer) ==
    LET health == server_health_uncached(server_name, answer)
    IN  IF ~health.outcome.ok THEN health.outcome.error
        ELSE IF health.dict \/ health.outcome.status = MissingStatus THEN "KeyError"
        ELSE IF ~is_healthy(health.outcome.status) THEN "ServerUnhealthyError"
        ELSE ""

\* is_server_healthy(server_name): True, or False on a McpdError.
is_server_healthy(server_name, answer) ==
    LET error == _raise_for_server_health(server_name, answer)
    IN  IF error = "" THEN Returned(TRUE)
        ELSE IF error \in McpdErrors THEN Returned(FALSE)
        ELSE Raised(error)

\* The callable client.call.<server>.<tool> hands out, or none.
ToolCallable(server_name, tool_name) ==
    [kind |-> "callable", server |-> server_name, tool |-> tool_name, error |-> ""]
AccessFails(error) == [kind |-> "raised", server |-> "", tool |-> "", error |-> error]
ToolNotFound == "McpdError: Tool not found"

\* An attribute access that hands out the callable without looking.
GetattrWithoutCheck(server_name, tool_name, check) == ToolCallable(server_name, tool_name)

\* ServerProxy.__getattr__(tool_name), given what has_tool did.
ServerProxy__getattr__(server_name, tool_name, check) ==
    IF check.kind = "raised" THEN AccessFails(check.error)
    ELSE IF ~check.value THEN AccessFails(ToolNotFound)
    ELSE ToolCallable(server_name, tool_name)

\* Answers to POST /api/v1/servers/<server>/tools/<tool>: a result, or a
\* failure.
InvocationAnswers ==
    {Json("result one"), Json("result two"), HTTPError(404), HTTPError(500),
     Raises("ConnectionError")}

\* The classes of requests.exceptions an exception is an instance of: a
\* ConnectTimeout is a ConnectionError and a Timeout, a ReadTimeout a Timeout,
\* and all of them are RequestExceptions.
ExceptionClasses(t) ==
    CASE t = "ConnectTimeout" -> {"ConnectTimeout", "ConnectionError", "Timeout", "RequestException"}
      [] t = "ReadTimeout" -> {"ReadTimeout", "Timeout", "RequestException"}
      [] t \in {"ConnectionError", "Timeout", "HTTPError", "TooManyRedirects"} ->
            {t, "RequestException"}
      [] OTHER -> {t}

\* timeout=30 of the POST.
InvocationTimeout == 30

\* What _perform_call gives: the result, or the SDK error with what it
\* carries and the exception it was raised from.
CallResult(result) ==
    [raised |-> FALSE, result |-> result, error |-> "", server_name |-> "", tool_name |-> "",
     operation |-> "", timeout |-> 0, cause |-> ""]
CallError(error, server_name, tool_name, operation, timeout, cause) ==
    [raised |-> TRUE, result |-> "", error |-> error, server_name |-> server_name,
     tool_name |-> tool_name, operation |-> operation, timeout |-> timeout, cause |-> cause]

\* A _perform_call without the clause for 404.
PerformCallWithoutNotFound(server_name, tool_name, answer) ==
    CASE answer.t = "json" -> CallResult(answer.body)
      [] "ConnectionError" \in ExceptionClasses(answer.t) ->
            CallError("ConnectionError", "", "", "", 0, answer.t)
      [] "Timeout" \in ExceptionClasses(answer.t) ->
            CallError("TimeoutError", "", "", server_name \o "." \o tool_name,
                      InvocationTimeout, answer.t)
      [] answer.t = "HTTPError" /\ answer.code = 401 ->
            CallError("AuthenticationError", "", "", "", 0, answer.t)
      [] answer.t = "HTTPError" ->
            CallError("ToolExecutionError", server_name, tool_name, "", 0, answer.t)
      [] "RequestException" \in ExceptionClasses(answer.t) ->
            CallError("McpdError", "", "", "", 0, answer.t)
      [] OTHER -> CallError(answer.t, "", "", "", 0, "")

\* _perform_call(server_name, tool_name, params): response.json(), or the
\* error of the first except clause the exception is an instance of, raised
\* from it; an exception no clause catches passes through.
_perform_call(server_name, tool_name, answer) ==
    CASE answer.t = "json" -> CallResult(answer.body)
      [] "ConnectionError" \in ExceptionClasses(answer.t) ->
            CallError("ConnectionError", "", "", "", 0, answer.t)
      [] "Timeout" \in ExceptionClasses(answer.t) ->
            CallError("TimeoutError", "", "", server_name \o "." \o tool_name,
                      InvocationTimeout, answer.t)
      [] answer.t = "HTTPError" /\ answer.code = 401 ->
            CallError("AuthenticationError", "", "", "", 0, answer.t)
      [] answer.t = "HTTPError" /\ answer.code = 404 ->
            CallError("ServerNotFoundError", server_name, "", "", 0, answer.t)
      [] answer.t = "HTTPError" /\ answer.code >= 500 ->
            CallError("ToolExecutionError", server_name, tool_name, "", 0, answer.t)
      [] answer.t = "HTTPError" ->
            CallError("ToolExecutionError", server_name, tool_name, "", 0, answer.t)
      [] "RequestException" \in ExceptionClasses(answer.t) ->
            CallError("McpdError", "", "", "", 0, answer.t)
      [] OTHER -> CallError(answer.t, "", "", "", 0, "")

\* How many tool invocations a run sends.
MaxPosts == 1

ProxyFrame == UNCHANGED <<builder_vars, tools_vars, health_vars, thread_vars, unit_vars, alias_vars>>

HasTool(server_name, tool_name, answer) ==
    /\ probe' = [kind |-> "has_tool", server |-> server_name, tool |-> tool_name,
                 answer |-> answer, out |-> has_tool(server_name, tool_name, answer)]
    /\ UNCHANGED posts
    /\ ProxyFrame

IsServerHealthy(server_name, answer) ==
    /\ probe' = [kind |-> "is_server_healthy", server |-> server_name, answer |-> answer,
                 lookup |-> server_health_uncached(server_name, answer).outcome,
                 out |-> is_server_healthy(server_name, answer)]
    /\ UNCHANGED posts
    /\ ProxyFrame

\* client.call.<server_name>.<tool_name>
CallAccess(server_name, tool_name, answer) ==
    /\ probe' = [kind |-> "access", server |-> server_name, tool |-> tool_name,
                 answer |-> answer,
                 check |-> has_tool(server_name, tool_name, answer),
                 got |-> ServerProxy__getattr__(server_name, tool_name,
                                                has_tool(server_name, tool_name, answer)),
                 sent_before |-> Len(posts)]
    /\ UNCHANGED posts
    /\ ProxyFrame

\* tool_callable(**kwargs) of the callable last handed out.
CallCallable(kwargs, answer) ==
    /\ probe.kind \in {"access", "call"}
    /\ probe.got.kind = "callable"
    /\ Len(posts) < MaxPosts
    /\ posts' = Append(posts, [server |-> probe.got.server, tool |-> probe.got.tool,
                               params |-> kwargs])
    /\ probe' = [kind |-> "call", server |-> probe.server, tool |-> probe.tool,
                 answer |-> answer, check |-> probe.check, got |-> probe.got,
                 kwargs |-> kwargs,
                 out |-> _perform_call(probe.got.server, probe.got.tool, answer),
                 sent_before |-> Len(posts)]
    /\ ProxyFrame

\* The keyword arguments a callable is called with: a value for x, an
\* explicit null for y, either, both or none.
ProxyKwArgs ==
    {kw \in KwArgs : \A k \in DOMAIN kw : kw[k] = IF k = "x" THEN "one" ELSE None}

ProxyInit ==
    /\ IdleBuilder
    /\ daemon_tools \in {list \in [Range(ServerOrder) -> ToolLists] : list["a__b"] = <<"c">>}
    /\ daemon_health \in {HealthMap("ok", "ok"), HealthMap("unreachable", "ok")}
    /\ agent = NoEntry
    /\ IdleHealth
    /\ IdleThreads
    /\ IdleUnits
    /\ IdleAlias

ProxyHasTool == \E s \in LookupServers, t \in LookupTools :
                    \E answer \in ToolsAnswers(s) : HasTool(s, t, answer)
ProxyIsServerHealthy == \E s \in LookupServers :
                            \E answer \in HealthAnswers(s) : IsServerHealthy(s, answer)
ProxyAccess == \E s \in LookupServers, t \in LookupTools :
                   \E answer \in ToolsAnswers(s) : CallAccess(s, t, answer)
ProxyCall == \E kwargs \in ProxyKwArgs, answer \in InvocationAnswers :
                 CallCallable(kwargs, answer)

ProxyNext == ProxyHasTool \/ ProxyIsServerHealthy \/ ProxyAccess \/ ProxyCall

SpecProxy == ProxyInit /\ [][ProxyNext]_vars

----------------------------------------------------------------------------
(* The boolean checks and the dynamic caller.                              *)

\* The tool list of the answer has a definition of that name.
ListsTool(answer, tool_name) ==
    /\ answer.t = "json"
    /\ ~answer.null
    /\ \E i \in 1..Len(answer.defs) : answer.defs[i] = Definition(tool_name)

\* The answer is a list of definition objects, or a failure the SDK has an
\* error for.
WellFormed(answer) ==
    IF answer.t = "json"
    THEN ~answer.null /\ \A i \in 1..Len(answer.defs) : answer.defs[i].object
    ELSE answer.t # "Exception"

\* C14: has_tool(server, tool) never raises, whatever the server name, the
\* tool name and the daemon's response: it returns True exactly when the tool
\* list fetched for the server has a definition named tool, and False on any
\* error.
C14_HasToolNeverRaises ==
    (probe.kind = "has_tool") =>
        probe.out = Returned(ListsTool(probe.answer, probe.tool))

\* The same for a non-empty server name and a well-formed answer.
HasToolOfNamedServerOnWellFormedAnswer ==
    (probe.kind = "has_tool" /\ Truthy(probe.server) /\ WellFormed(probe.answer)) =>
        probe.out = Returned(ListsTool(probe.answer, probe.tool))

\* has_tool("", tool) raised AttributeError although the daemon answered.
HasToolOfEmptyNameRaised ==
    /\ probe.kind = "has_tool"
    /\ ~Truthy(probe.server)
    /\ probe.answer.t = "json"
    /\ probe.out = Raised("AttributeError")

\* C15: is_server_healthy(s) never lets a failure through: True exactly when
\* the lookup succeeds with status "ok", False for every other status, for an
\* unknown server, an unreachable daemon and any other error.
C15_IsServerHealthyNeverRaises ==
    (probe.kind = "is_server_healthy") =>
        probe.out = Returned(probe.lookup.ok /\ probe.lookup.status = "ok")

\* The same for a non-empty server name, a body with a status and a failure
\* the SDK has an error for.
IsServerHealthyOfNamedServerOnWellFormedAnswer ==
    (/\ probe.kind = "is_server_healthy"
     /\ Truthy(probe.server)
     /\ probe.answer # Json(MissingStatus)
     /\ probe.answer.t # "Exception") =>
        probe.out = Returned(probe.lookup.ok /\ probe.lookup.status = "ok")

\* is_server_healthy raised KeyError on a body without "status".
IsServerHealthyRaisedKeyError ==
    /\ probe.kind = "is_server_healthy"
    /\ probe.out = Raised("KeyError")

\* C16: when the health lookup inside is_server_healthy raises
\* ServerUnhealthyError or ServerNotFoundError the result is False, and when
\* it raises a plain McpdError that McpdError reaches the caller.
C16_PlainMcpdErrorPropagates ==
    (probe.kind = "is_server_healthy" /\ ~probe.lookup.ok) =>
        /\ (probe.lookup.error \in {"ServerUnhealthyError", "ServerNotFoundError"}) =>
               (probe.out = Returned(FALSE))
        /\ (probe.lookup.error = "McpdError") => (probe.out = Raised("McpdError"))

\* The half of it the code has.
UnhealthyAndNotFoundAreFalse ==
    (/\ probe.kind = "is_server_healthy"
     /\ ~probe.lookup.ok
     /\ probe.lookup.error \in {"ServerUnhealthyError", "ServerNotFoundError"}) =>
        (probe.out = Returned(FALSE))

\* A plain McpdError of the lookup came back as False.
PlainMcpdErrorBecameFalse ==
    /\ probe.kind = "is_server_healthy"
    /\ probe.lookup = Error("McpdError")
    /\ probe.out = Returned(FALSE)

\* C17: client.call.<server>.<tool> runs has_tool(server, tool) before it
\* hands out a callable.  When the check finds the tool absent the access
\* fails with the tool-not-found error and sends no invocation request; when
\* it finds it, the callable sends exactly the keyword arguments it is called
\* with as the parameters of (server, tool) and returns the result unchanged.
C17_CallChecksThenForwards ==
    /\ (probe.kind = "access") =>
           /\ probe.check = has_tool(probe.server, probe.tool, probe.answer)
           /\ (probe.got.kind = "callable") <=> (probe.check = Returned(TRUE))
           /\ (probe.check = Returned(FALSE)) => (probe.got = AccessFails(ToolNotFound))
           /\ (probe.check = Returned(TRUE)) =>
                  (probe.got = ToolCallable(probe.server, probe.tool))
           /\ Len(posts) = probe.sent_before
    /\ (probe.kind = "call") =>
           /\ probe.check = Returned(TRUE)
           /\ Len(posts) = probe.sent_before + 1
           /\ posts[Len(posts)] =
                  [server |-> probe.server, tool |-> probe.tool, params |-> probe.kwargs]
           /\ (probe.answer.t = "json") =>
                  (~probe.out.raised /\ probe.out.result = probe.answer.body)

\* A tool found absent was refused after a call of a tool found present sent
\* its arguments, an explicit null among them.
C17_Witness ==
    /\ probe.kind = "access"
    /\ probe.check = Returned(FALSE)
    /\ probe.got = AccessFails(ToolNotFound)
    /\ Len(posts) = MaxPosts
    /\ \E i \in 1..Len(posts) : "y" \in DOMAIN posts[i].params /\ posts[i].params["y"] = None

----------------------------------------------------------------------------
(* Re-synthesis and the parameter map.                                     *)

\* C18: two create_function_from_schema calls with the same schema and the
\* same server, the first building the cache entry and the second served from
\* it, return callables with the same metadata that, called with the same
\* arguments, make the same delegated call (server, tool, parameter map) or
\* fail alike.
C18_ResynthesisIsIdempotent ==
    [][(/\ created.kind = "created"
        /\ created.fresh
        /\ created'.kind = "created"
        /\ ~created'.fresh
        /\ created'.schema = created.schema
        /\ created'.server_name = created.server_name) =>
           /\ created'.fn.code.name = created.fn.code.name
           /\ created'.fn.code.signature = created.fn.code.signature
           /\ created'.fn.annotations = created.fn.annotations
           /\ \A kwargs \in KwArgs :
                  CallOutcome(created'.fn.code, kwargs) = CallOutcome(created.fn.code, kwargs)]_vars

\* The function served from the entry its own input built was called and
\* invoked the tool with a parameter.
C18_Witness ==
    /\ created.kind = "created"
    /\ ~created.fresh
    /\ cache_key(created.schema, created.server_name) \in DOMAIN function_cache
    /\ function_cache[cache_key(created.schema, created.server_name)].code =
           _build_function_code(created.schema, created.server_name)
    /\ call.kind = "called"
    /\ call.out.kind = "invoked"
    /\ call.out.params # <<>>

\* The parameters of the schema a call passes, in property order, with the
\* values passed; with or without the ones passed as null.
Supplied(props, kwargs) ==
    LET sel == SelectSeq(props, LAMBDA p : p \in DOMAIN kwargs)
    IN  [i \in 1..Len(sel) |-> <<sel[i], kwargs[sel[i]]>>]

SuppliedNotNull(props, kwargs) ==
    LET sel == SelectSeq(props, LAMBDA p : p \in DOMAIN kwargs /\ kwargs[p] # None)
    IN  [i \in 1..Len(sel) |-> <<sel[i], kwargs[sel[i]]>>]

\* C19 as stated: the parameter map a synthesized function sends holds
\* exactly the parameters the caller supplied, in schema property order: an
\* optional parameter not supplied is omitted, one supplied with a falsy
\* value, an explicit null among them, is included with that value.
C19_SuppliedParametersSent ==
    (CallOfBuiltFunction /\ call.out.kind = "invoked") =>
        call.out.params = Supplied(created.schema.props, call.kwargs)

\* C19: the parameter map a synthesized function sends holds exactly the
\* parameters the caller supplied with a value other than null, in schema
\* property order: an optional parameter not supplied or supplied as an
\* explicit null is omitted, one supplied with a falsy value that is not null
\* is included with that value.
C19_SuppliedNonNullParametersSent ==
    (CallOfBuiltFunction /\ call.out.kind = "invoked") =>
        call.out.params = SuppliedNotNull(created.schema.props, call.kwargs)

\* A call passed a falsy value and an explicit null: the first was sent, the
\* second was not.
C19_Witness ==
    /\ CallOfBuiltFunction
    /\ call.out.kind = "invoked"
    /\ \E p, q \in DOMAIN call.kwargs :
          /\ call.kwargs[p] = "zero"
          /\ call.kwargs[q] = None
          /\ call.out.params = <<<<p, "zero">>>>

----------------------------------------------------------------------------
(* Threads in the FunctionBuilder.                                         *)

\* The threads of the embedding program that use one client.
Threads == {1, 2}

\* What the threads synthesize: two schemas of one tool of one server, so
\* that every call is for the same cache key.
ThreadSchemas ==
    {[name |-> "c", props |-> <<"x">>, required |-> {"x"}],
     [name |-> "c", props |-> <<"x", "y">>, required |-> {}]}
ThreadServer == "a"

\* A thread outside the FunctionBuilder, with what its last call gave: nothing
\* yet, a callable, or KeyError.
NoResult == [kind |-> "none", name |-> ""]
GotCallable(fn) == [kind |-> "callable", name |-> fn.code.name]
GotKeyError == [kind |-> "KeyError", name |-> ""]

Outside(result, cleared) ==
    [pc |-> "outside", schema |-> NoEntry, result |-> result, cleared |-> cleared]
Inside(pc, schema, cleared) ==
    [pc |-> pc, schema |-> schema, result |-> NoResult, cleared |-> cleared]

\* self._function_cache[cache_key] = {...}
StoreEntry(cache, key, entry) ==
    [k \in DOMAIN cache \cup {key} |-> IF k = key THEN entry ELSE cache[k]]

ThreadFrame == UNCHANGED <<created, call, tools_vars, health_vars, proxy_vars, unit_vars, alias_vars>>

\* A thread enters create_function_from_schema and computes the key.
ThreadEnter(t, schema) ==
    /\ threads[t].pc = "outside"
    /\ threads' = [threads EXCEPT ![t] = Inside("test", schema, FALSE)]
    /\ UNCHANGED function_cache
    /\ ThreadFrame

\* `if cache_key in self._function_cache:`
ThreadTest(t) ==
    /\ threads[t].pc = "test"
    /\ threads' = [threads EXCEPT ![t].pc =
           IF cache_key(threads[t].schema, ThreadServer) \in DOMAIN function_cache
           THEN "read" ELSE "build"]
    /\ UNCHANGED function_cache
    /\ ThreadFrame

\* `cached_func = self._function_cache[cache_key]` and the return of the
\* re-created function: outside the try, so a KeyError leaves the call as it
\* is.
ThreadRead(t) ==
    /\ threads[t].pc = "read"
    /\ threads' = [threads EXCEPT ![t] =
           Outside(IF cache_key(threads[t].schema, ThreadServer) \in DOMAIN function_cache
                   THEN GotCallable(CachedFunction(
                            function_cache[cache_key(threads[t].schema, ThreadServer)]))
                   ELSE GotKeyError,
                   threads[t].cleared)]
    /\ UNCHANGED function_cache
    /\ ThreadFrame

\* The try block: build, compile, store the entry, return the function built.
ThreadBuild(t) ==
    /\ threads[t].pc = "build"
    /\ function_cache' =
           StoreEntry(function_cache, cache_key(threads[t].schema, ThreadServer),
                      [code        |-> _build_function_code(threads[t].schema, ThreadServer),
                       annotations |-> _create_annotations(threads[t].schema)])
    /\ threads' = [threads EXCEPT ![t] =
           Outside(GotCallable(Callable(_build_function_code(threads[t].schema, ThreadServer),
                                        _create_annotations(threads[t].schema))),
                   threads[t].cleared)]
    /\ ThreadFrame

\* A thread outside the builder runs clear_agent_tools_cache: one
\* dict.clear().  The threads inside the builder are marked.
ThreadClear(t) ==
    /\ threads[t].pc = "outside"
    /\ function_cache # <<>>
    /\ function_cache' = <<>>
    /\ threads' = [u \in Threads |->
           IF threads[u].pc = "outside" THEN threads[u]
           ELSE [threads[u] EXCEPT !.cleared = TRUE]]
    /\ ThreadFrame

ThreadsInit ==
    /\ IdleBuilder
    /\ IdleTools
    /\ IdleHealth
    /\ threads = [t \in Threads |-> Outside(NoResult, FALSE)]
    /\ IdleUnits
    /\ IdleAlias

ThreadsEnter == \E t \in Threads, schema \in ThreadSchemas : ThreadEnter(t, schema)
ThreadsTest == \E t \in Threads : ThreadTest(t)
ThreadsRead == \E t \in Threads : ThreadRead(t)
ThreadsBuild == \E t \in Threads : ThreadBuild(t)
ThreadsClear == \E t \in Threads : ThreadClear(t)

ThreadsNext == ThreadsEnter \/ ThreadsTest \/ ThreadsRead \/ ThreadsBuild \/ ThreadsClear

SpecThreads == ThreadsInit /\ [][ThreadsNext]_vars

\* C20: the function cache is changed atomically with respect to reads of
\* the same key: whatever another thread does meanwhile (clearing the cache,
\* synthesizing the same key), a thread that synthesizes key k returns a
\* callable for k and never fails because the entry went away between the
\* membership test and the read.
C20_SynthesisSurvivesConcurrentClear ==
    \A t \in Threads :
        (threads[t].pc = "outside" /\ threads[t].result # NoResult) =>
            /\ threads[t].result.kind = "callable"
            /\ threads[t].result.name = ThreadServer \o "__" \o "c"

\* The same for the calls during which no thread cleared the cache.
SynthesisWithoutConcurrentClear ==
    \A t \in Threads :
        (threads[t].pc = "outside" /\ threads[t].result # NoResult /\ ~threads[t].cleared) =>
            /\ threads[t].result.kind = "callable"
            /\ threads[t].result.name = ThreadServer \o "__" \o "c"

\* A thread found the key, another cleared the cache, and the read raised
\* KeyError.
SynthesisRaisedKeyError ==
    \E t \in Threads :
        /\ threads[t].pc = "outside"
        /\ threads[t].result = GotKeyError
        /\ threads[t].cleared

----------------------------------------------------------------------------
(* The cache key and the target of a callable.                             *)

\* C27: whatever calls and clears came before, the callable that
\* create_function_from_schema returns for server s and tool t delegates to
\* _perform_call(s, t, ...), also when s + "__" + t is the same string for
\* two different pairs.
C27_CallableTargetsItsOwnPair ==
    (created.kind = "created") =>
        /\ created.fn.code.server = created.server_name
        /\ created.fn.code.tool = created.schema.name

\* The same for the pairs whose key no other pair synthesized since the last
\* clear shares.
TargetsItsOwnPairWithoutKeyCollision ==
    (/\ created.kind = "created"
     /\ cache_key(created.schema, created.server_name) \in DOMAIN function_cache
     /\ function_cache[cache_key(created.schema, created.server_name)].code.server
            = created.server_name) =>
        /\ created.fn.code.server = created.server_name
        /\ created.fn.code.tool = created.schema.name

\* The callable returned for one pair calls the other pair of the same key.
CallableTargetsOtherPair ==
    /\ created.kind = "created"
    /\ ~created.fresh
    /\ created.fn.code.server # created.server_name
    /\ created.fn.code.tool # created.schema.name
    /\ call.kind = "called"
    /\ call.out.kind = "invoked"
    /\ call.out.server # created.server_name

----------------------------------------------------------------------------
(* Regeneration after a clear.                                             *)

\* The function a build from the definition of tool t of server s, as the
\* daemon has it now, gives.
BuiltFromDefinition(s, t) ==
    Callable(_build_function_code(ToolSchema(t), s), _create_annotations(ToolSchema(t)))

\* The definitions the last agent_tools call fetched.
FetchedPairs == ToolPairs(SurvivingServers)

\* C21: the agent_tools call that follows clear_agent_tools_cache finds no
\* function in the cache and returns only functions built from the tool
\* definitions it fetched itself: none has a signature, a required set or a
\* target that comes from a definition seen before the clear.
C21_RegeneratedAfterClear ==
    (agent.kind = "returned" /\ agent.after_clear) =>
        /\ agent.found = <<>>
        /\ \A i \in 1..Len(agent.result) :
              \E j \in 1..Len(FetchedPairs) :
                  agent.result[i].fn = BuiltFromDefinition(FetchedPairs[j][1], FetchedPairs[j][2])

\* The clear dropped a function built from a definition the daemon has since
\* replaced, and the call after it returned a function of the same name
\* built from the new definition.
C21_Witness ==
    /\ agent.kind = "returned"
    /\ agent.after_clear
    /\ \E i \in 1..Len(agent.result) :
          /\ __name__(agent.result[i].fn) \in DOMAIN agent.dropped
          /\ agent.dropped[__name__(agent.result[i].fn)].code.properties # daemon_props
          /\ agent.result[i].fn.code.properties = daemon_props

----------------------------------------------------------------------------
(* The metadata of the generated tools.                                    *)

\* C22: every callable agent_tools returns, built in the call or served from
\* the function cache, carries the metadata of its tool: __name__ is
\* "<server>__<tool>", _server_name the server that hosts the tool,
\* _tool_name the name of the tool and _schema the tool's definition.
C22_CallablesCarryToolMetadata ==
    (agent.kind = "returned") =>
        \A i \in 1..Len(agent.result) :
            /\ __name__(agent.result[i].fn) =
                   agent.result[i].server_name \o "__" \o agent.result[i].tool
            /\ _server_name(agent.result[i].fn) = agent.result[i].server_name
            /\ _tool_name(agent.result[i].fn) = agent.result[i].tool
            /\ _schema(agent.result[i].fn) = ToolSchema(agent.result[i].tool)

\* The same for the calls in which no two listed tools share a cache key.
MetadataWithoutKeyCollision == BuiltAsListed => C22_CallablesCarryToolMetadata

\* The qualified name alone is right for every callable.
QualifiedNameOfEveryCallable ==
    (agent.kind = "returned") =>
        \A i \in 1..Len(agent.result) :
            __name__(agent.result[i].fn) =
                agent.result[i].server_name \o "__" \o agent.result[i].tool

\* A callable returned for a tool of one server carries another server's name.
CallableCarriesOtherServer ==
    /\ agent.kind = "returned"
    /\ \E i \in 1..Len(agent.result) :
          /\ _server_name(agent.result[i].fn) # agent.result[i].server_name
          /\ _tool_name(agent.result[i].fn) # agent.result[i].tool

----------------------------------------------------------------------------
(* The errors of a tool invocation.                                        *)

\* The ways the POST of a tool invocation fails: the daemon is not reached,
\* connecting or reading times out, the daemon answers with an error status,
\* or the request fails otherwise.
HTTPStatuses == {400, 401, 403, 404, 422, 500, 503}
InvocationFailures ==
    {Raises("ConnectionError"), Raises("ConnectTimeout"), Raises("ReadTimeout"),
     Raises("Timeout"), Raises("TooManyRedirects"), Raises("RequestException")}
        \cup {HTTPError(code) : code \in HTTPStatuses}

\* client._perform_call(server_name, tool_name, params)
PerformCall(server_name, tool_name, params, answer) ==
    /\ probe' = [kind |-> "_perform_call", server |-> server_name, tool |-> tool_name,
                 params |-> params, answer |-> answer,
                 out |-> _perform_call(server_name, tool_name, answer)]
    /\ UNCHANGED posts
    /\ ProxyFrame

InvokeNext == \E s \in ServerNames, t \in ToolNames, params \in ProxyKwArgs :
                  \E answer \in InvocationFailures \cup {Json("result one")} :
                      PerformCall(s, t, params, answer)

SpecInvoke == ProxyInit /\ [][InvokeNext]_vars

\* The failure is a transport failure: the daemon was not reached, a timeout
\* while connecting included.
TransportFailure(answer) == answer.t \in {"ConnectionError", "ConnectTimeout"}

\* The request was sent and timed out.
RequestTimeout(answer) == answer.t \in {"Timeout", "ReadTimeout"}

\* C23: every failure of a tool invocation leaves _perform_call as one SDK
\* error and never as the transport's own exception: a transport failure as
\* ConnectionError, a request timeout as TimeoutError with operation
\* "<server>.<tool>" and timeout 30, HTTP 401 as AuthenticationError, HTTP 404
\* as ServerNotFoundError for the server, any other HTTP error status as
\* ToolExecutionError with the server and tool names, any other request
\* failure as a plain McpdError; the original exception is the cause.
C23_InvocationFailuresTranslated ==
    (probe.kind = "_perform_call" /\ probe.answer.t # "json") =>
        /\ probe.out.raised
        /\ probe.out.error \in McpdErrors
        /\ probe.out.cause = probe.answer.t
        /\ TransportFailure(probe.answer) => (probe.out.error = "ConnectionError")
        /\ RequestTimeout(probe.answer) =>
              /\ probe.out.error = "TimeoutError"
              /\ probe.out.operation = probe.server \o "." \o probe.tool
              /\ probe.out.timeout = 30
        /\ (probe.answer.t = "HTTPError" /\ probe.answer.code = 401) =>
              (probe.out.error = "AuthenticationError")
        /\ (probe.answer.t = "HTTPError" /\ probe.answer.code = 404) =>
              (probe.out.error = "ServerNotFoundError" /\ probe.out.server_name = probe.server)
        /\ (probe.answer.t = "HTTPError" /\ probe.answer.code \notin {401, 404}) =>
              /\ probe.out.error = "ToolExecutionError"
              /\ probe.out.server_name = probe.server
              /\ probe.out.tool_name = probe.tool
        /\ (probe.answer.t \in {"TooManyRedirects", "RequestException"}) =>
              (probe.out.error = "McpdError")

\* A 404 of an invocation became ServerNotFoundError for the server called.
C23_Witness ==
    /\ probe.kind = "_perform_call"
    /\ probe.answer = HTTPError(404)
    /\ probe.out.error = "ServerNotFoundError"
    /\ probe.out.server_name = "a__b"
    /\ probe.out.cause = "HTTPError"

\* ---------------------------------------------------------------------
\* Error kinds of a failed tool retrieval
\* ---------------------------------------------------------------------

\* The call of agent_tools ended on a failed request for the server list or
\* for a tool list.
RetrievalFailed ==
    /\ agent.kind = "raised"
    /\ agent.net.fails \in {"servers", "tools"}

\* C24: when the request for the server list or for a tool list fails,
\* agent_tools raises the error kind that servers() or the tool-definition
\* fetch raised for it: ConnectionError when the daemon cannot be reached,
\* TimeoutError on a timeout, AuthenticationError on a 401 and
\* ServerNotFoundError on a 404 of a tool list.
C24_RetrievalFailureKeepsItsKind ==
    RetrievalFailed => (agent.error = FetchError(agent.net))

\* What the code does instead: every SDK error of the retrieval comes out
\* of agent_tools as a plain McpdError; only an exception that is no
\* McpdError keeps its kind.
RetrievalFailureIsPlainMcpdError ==
    RetrievalFailed =>
        /\ (FetchError(agent.net) \in McpdErrors) => (agent.error = "McpdError")
        /\ (FetchError(agent.net) \notin McpdErrors) => (agent.error = FetchError(agent.net))

\* The daemon could not be reached for the server list and agent_tools
\* raised a plain McpdError.
ConnectionErrorBecamePlainMcpdError ==
    /\ RetrievalFailed
    /\ agent.net = NetFails("servers", Raises("ConnectionError"))
    /\ agent.error = "McpdError"

\* ---------------------------------------------------------------------
\* A failed synthesis and the function cache
\* ---------------------------------------------------------------------

\* C29: a create_function_from_schema call that raises leaves the function
\* cache exactly as it was, with no entry under the key of the call, and the
\* next call for that key with a valid schema builds a fresh function from
\* that schema.
C29_FailedCreateLeavesCacheAlone ==
    [][/\ (created' # created /\ created'.kind = "raised") =>
            /\ function_cache' = function_cache
            /\ created'.key \notin DOMAIN function_cache'
       /\ (created' # created /\ created'.kind = "created" /\ created'.after_failure) =>
            /\ created'.fresh
            /\ created'.fn = Callable(_build_function_code(created'.schema, created'.server_name),
                                      _create_annotations(created'.schema))
            /\ function_cache'[created.key] =
                  [code |-> created'.fn.code, annotations |-> created'.fn.annotations]]_vars

\* A schema with a property that is no identifier failed next to a cached
\* function of another key, and the cache still holds that function alone.
FailedCreateNextToCachedFunction ==
    /\ created.kind = "raised"
    /\ created.schema.name \notin NonIdentifiers
    /\ function_cache # <<>>
    /\ created.key \notin DOMAIN function_cache

\* Right after the failure the same key was built from a valid schema, and
\* the function built calls its tool.
C29_Witness ==
    /\ created.kind = "created"
    /\ created.after_failure
    /\ created.fresh
    /\ created.schema = [name |-> "c", props |-> <<"x", "y">>, required |-> {"y"}]
    /\ call.kind = "called"
    /\ call.out.kind = "invoked"

\* ---------------------------------------------------------------------
\* agent_tools returns every tool or raises
\* ---------------------------------------------------------------------

\* C28: a call of agent_tools without name filters either raises, or returns
\* exactly one callable for every tool definition of every server it went
\* through, in server order and then definition order, each under the
\* qualified name of its definition.  It raises whenever a request for the
\* server list or a tool list failed, and whenever a listed tool is one no
\* function can be generated for.
C28_AllToolsOrRaises ==
    (agent.kind \in {"returned", "raised"} /\ ~agent.servers.given /\ ~agent.tools.given) =>
        /\ (agent.kind = "returned") =>
              /\ Len(agent.result) = Len(FetchedPairs)
              /\ \A i \in 1..Len(FetchedPairs) :
                    /\ agent.result[i].server_name = FetchedPairs[i][1]
                    /\ agent.result[i].tool = FetchedPairs[i][2]
                    /\ __name__(agent.result[i].fn) =
                          cache_key(ToolSchema(FetchedPairs[i][2]), FetchedPairs[i][1])
        /\ (agent.kind = "raised") => (agent.result = <<>>)
        /\ (agent.net.fails \in {"servers", "tools"}) => (agent.kind = "raised")
        /\ (\E i \in 1..Len(FetchedPairs) : FetchedPairs[i][2] \in NonIdentifiers) =>
              (agent.kind = "raised")

\* The second server lists a tool no function can be generated for, after a
\* good one: the call raised McpdError and returned no list, although the
\* functions of the tools before it were made and cached.
C28_Witness ==
    /\ agent.kind = "raised"
    /\ agent.net = NetOk
    /\ agent.error = "McpdError"
    /\ daemon_tools["a__b"] = <<"c", "bad name">>
    /\ Len(FetchedPairs) >= 3
    /\ "a__b__c" \in DOMAIN function_cache
    /\ agent.result = <<>>

\* ---------------------------------------------------------------------
\* The schema type mapper
\* ---------------------------------------------------------------------

\* C25: parse_schema_type returns a type for every schema fragment and
\* never raises: a missing or unknown type, an anyOf with no or one
\* alternative, a one-value enum and nested items included.
C25_TypeMapperIsTotal ==
    (mapped.kind = "mapped") => ~mapped.out.raised

\* The fragment has, where the mapper looks, an anyOf without alternatives
\* or a boolean schema.
RECURSIVE HasEmptyUnionOrBooleanSchema(_)
HasEmptyUnionOrBooleanSchema(f) ==
    \/ f.json # "object"
    \/ /\ "anyOf" \in f.keys
       /\ \/ f.anyOf = <<>>
          \/ \E i \in 1..Len(f.anyOf) : HasEmptyUnionOrBooleanSchema(f.anyOf[i])
    \/ /\ "anyOf" \notin f.keys
       /\ f.type = "array"
       /\ "items" \in f.keys
       /\ HasEmptyUnionOrBooleanSchema(f.items[1])

\* Everywhere else the mapper is total: it raises for those fragments only,
\* a fragment without type or with a type it does not know maps to Any, a
\* one-alternative anyOf maps to the type of its alternative, and a
\* one-value enum to the Literal of the value.
TypeMapperTotalOnPopulatedFragments ==
    (mapped.kind = "mapped") =>
        /\ mapped.out.raised = HasEmptyUnionOrBooleanSchema(mapped.schema_def)
        /\ mapped.schema_def \in {EmptySchema, Typed("mystery"), Typed("null")} =>
              (mapped.out = AnyType)
        /\ (mapped.schema_def = AnyOf(<<Typed("integer")>>)) => (mapped.out = TypeOf(<<"int">>))
        /\ (mapped.schema_def = EnumOf(<<"a">>)) => (mapped.out = TypeOf(<<"Literal[a]">>))
        /\ (mapped.schema_def = ArrayOf(ArrayOf(Typed("number")))) =>
              (mapped.out = TypeOf(<<"list[list[int | float]]">>))

\* An anyOf with no alternative made the mapper raise IndexError.
EmptyAnyOfRaisedIndexError ==
    /\ mapped.kind = "mapped"
    /\ mapped.schema_def = AnyOf(<<>>)
    /\ mapped.out = TypeRaises("IndexError")

\* ---------------------------------------------------------------------
\* The endpoint a client is constructed with
\* ---------------------------------------------------------------------

\* The slashes at the end of the part of the URL before "api/v1/...".
RECURSIVE SlashesAtEnd(_)
SlashesAtEnd(str) ==
    IF str # <<>> /\ str[Len(str)] = "/" THEN 1 + SlashesAtEnd(SubSeq(str, 1, Len(str) - 1)) ELSE 0
SlashesAtJoin(url) == SlashesAtEnd(SubSeq(url, 1, Len(url) - 1))

\* What C26 says of one construction: it raised ValueError and stored
\* nothing, or it stored an endpoint that is non-empty and ends in no
\* slash, so that the URL has exactly one slash before "api/v1/...".
RaisedOrStoredCleanEndpoint ==
    \/ /\ client.kind = "raised"
       /\ client.error = "ValueError"
    \/ /\ client.kind = "constructed"
       /\ client._endpoint # <<>>
       /\ client._endpoint[Len(client._endpoint)] # "/"
       /\ SlashesAtJoin(client.url) = 1

\* C26: every construction raises ValueError, or yields a client whose
\* stored endpoint is non-empty and has no trailing slash, so that the
\* request URL has exactly one slash at the join.
C26_EndpointStoredWithoutTrailingSlash ==
    (client.kind # "none") => RaisedOrStoredCleanEndpoint

\* The endpoint has whitespace before its trailing slashes, or after them.
BlankAtEnd(api_endpoint) ==
    LET cut == rstrip(api_endpoint, {"/"})
    IN  cut # <<>> /\ cut[Len(cut)] = " "

\* The same holds for every endpoint without whitespace at its end, and
\* ValueError is raised exactly when nothing is left of the endpoint.
EndpointCleanUnlessBlankAtEnd ==
    (client.kind # "none") =>
        /\ (client.kind = "raised") = (NormalisedEndpoint(client.api_endpoint) = <<>>)
        /\ ~BlankAtEnd(client.api_endpoint) => RaisedOrStoredCleanEndpoint

\* An endpoint with a blank after its trailing slash was stored with the
\* slash, and the URL has two slashes at the join.
TrailingSlashStored ==
    /\ client.kind = "constructed"
    /\ client.api_endpoint = <<"h", "/", " ">>
    /\ client._endpoint = <<"h", "/">>
    /\ SlashesAtJoin(client.url) = 2

\* ---------------------------------------------------------------------
\* The annotations of callables made for one key
\* ---------------------------------------------------------------------

\* The annotations callable i has now.
AnnotationsOf(i) == heap[handed[i].ref]

\* The annotations a later call for the key would copy.
EntryAnnotations == heap[entry_ref[AliasKey]]

\* C30: a change to the __annotations__ of one callable changes the
\* annotations of no other callable made for the key, before or after it,
\* nor those of the cache entry: every callable its holder did not change,
\* and the entry, have the annotations made from the schema the entry was
\* built from.
C30_AnnotationsNotShared ==
    /\ \A i \in 1..Len(handed) : ~handed[i].changed => (AnnotationsOf(i) = handed[i].made)
    /\ (AliasKey \in DOMAIN entry_ref) => (EntryAnnotations = handed[Filler].made)

\* Callables of the cached branch share nothing: as long as the holder of
\* the callable that filled the entry leaves it alone, every unchanged
\* callable and the entry keep the annotations that were made.
AnnotationsNotSharedByCopies ==
    (\A i \in 1..Len(handed) : handed[i].first => ~handed[i].changed) =>
        C30_AnnotationsNotShared

\* What holds: no two callables hold the same dict, so a change to one made
\* by the cached branch reaches nothing else, and the only callable whose
\* dict is the dict of a cache entry is one returned by a cache-filling
\* call.
OnlyFirstCallableSharesWithEntry ==
    /\ \A i, j \in 1..Len(handed) : (i # j) => (handed[i].ref # handed[j].ref)
    /\ \A i \in 1..Len(handed) :
          (AliasKey \in DOMAIN entry_ref /\ entry_ref[AliasKey] = handed[i].ref) => handed[i].first

\* The first callable was changed, and the callable made after it came out
\* with the changed annotations.
LaterCallableCarriesChange ==
    /\ Len(handed) >= 2
    /\ handed[1].first /\ handed[1].changed
    /\ ~handed[2].changed
    /\ AnnotationsOf(2)["x"] = "int"
    /\ EntryAnnotations["x"] = "int"

====
